---- MODULE Spec2Model ----
(***************************************************************************)
(* Pashto++ front end: Lexer (lib/interpreter/lexer.ts), Parser            *)
(* (lib/interpreter/parser.ts), the entry point runPashtoPlusPlus          *)
(* (lib/interpreter-client.ts) and the page that runs a program (Home:     *)
(* runCode, handleInputSubmit, the Run button).                            *)
(*                                                                         *)
(* A source text is a sequence of one-character strings, one for each code *)
(* unit of the JavaScript string.  A code unit that a string of this       *)
(* notation cannot hold (U+0060, a surrogate, and from U+0100 on every     *)
(* code unit whose low byte is below 80 hexadecimal) is written as its     *)
(* code in four hexadecimal digits, as in "\\u212A".  A token value is a   *)
(* sequence of characters as well, so that toLowerCase, concatenation      *)
(* and comparison with a literal are computed and not assumed.  A thrown   *)
(* Error is a record of the parts of its message:                          *)
(*   `${message} at line ${line}, column ${column}`.                       *)
(***************************************************************************)
EXTENDS Integers, Sequences, FiniteSets, TLC

VARIABLES code, pc, tokens, program, result,
          isRunning, waitingForInput, output, resolveInput,
          interpreter, inputCalls, locale, detached, runs, pending

\* The locals of one call of runPashtoPlusPlus
run == <<tokens, program, result, interpreter, inputCalls>>

\* The state of the page: useState of Home, window.__resolveInput, the locale
\* of the route, and the number of runs that a Home no longer mounted left
\* awaiting input
page == <<isRunning, waitingForInput, output, resolveInput, locale, detached>>

\* Counted for the claims: calls of runCode that have not finished, and
\* promises made by inputCallback that have not been resolved
counts == <<runs, pending>>

vars == <<code, pc, run, page, counts>>

(***************************************************************************)
(* Characters                                                              *)
(***************************************************************************)
NullChar == ""

Digits == {"0", "1", "2", "3", "4", "5", "6", "7", "8", "9"}

LowerLetters ==
  {"a", "b", "c", "d", "e", "f", "g", "h", "i", "j", "k", "l", "m",
   "n", "o", "p", "q", "r", "s", "t", "u", "v", "w", "x", "y", "z"}

UpperLetters ==
  {"A", "B", "C", "D", "E", "F", "G", "H", "I", "J", "K", "L", "M",
   "N", "O", "P", "Q", "R", "S", "T", "U", "V", "W", "X", "Y", "Z"}

\* The characters U+2000 to U+200A, U+2028, U+2029, U+202F, U+205F and U+3000,
\* which a string of this notation cannot hold: each is written as its code
\* point and is one character of a text
UnicodeSpaces ==
  {"\\u2000", "\\u2001", "\\u2002", "\\u2003", "\\u2004", "\\u2005", "\\u2006",
   "\\u2007", "\\u2008", "\\u2009", "\\u200A", "\\u2028", "\\u2029", "\\u202F",
   "\\u205F", "\\u3000"}

\* /\s/: space, tab, line feed, carriage return, form feed, vertical tab
\* (U+000B), no-break space (U+00A0), U+1680 and U+FEFF, and the spaces of
\* UnicodeSpaces.
WhiteSpace ==
  {" ", "\t", "\n", "\r", "\f", "", " ", " ", "﻿"} \cup UnicodeSpaces

IdentStart == LowerLetters \cup UpperLetters \cup {"_"}

IdentPart == IdentStart \cup Digits

PunctuationChars == {"(", ")", "{", "}", "[", "]", ",", ".", ";"}

LowerOf ==
  [c \in UpperLetters |->
     CASE c = "A" -> "a" [] c = "B" -> "b" [] c = "C" -> "c" [] c = "D" -> "d"
       [] c = "E" -> "e" [] c = "F" -> "f" [] c = "G" -> "g" [] c = "H" -> "h"
       [] c = "I" -> "i" [] c = "J" -> "j" [] c = "K" -> "k" [] c = "L" -> "l"
       [] c = "M" -> "m" [] c = "N" -> "n" [] c = "O" -> "o" [] c = "P" -> "p"
       [] c = "Q" -> "q" [] c = "R" -> "r" [] c = "S" -> "s" [] c = "T" -> "t"
       [] c = "U" -> "u" [] c = "V" -> "v" [] c = "W" -> "w" [] c = "X" -> "x"
       [] c = "Y" -> "y" [] c = "Z" -> "z"]

\* The lower-case mappings of the Unicode Character Database (version 17.0.0) in
\* the Basic Multilingual Plane, as <<character, lower case>>, without A to Z
\* (LowerOf) and without U+0130, whose lower case is two characters
LowerPairs ==
  {<<"À", "à">>, <<"Á", "á">>, <<"Â", "â">>, <<"Ã", "ã">>, <<"Ä", "ä">>,
   <<"Å", "å">>, <<"Æ", "æ">>, <<"Ç", "ç">>, <<"È", "è">>, <<"É", "é">>,
   <<"Ê", "ê">>, <<"Ë", "ë">>, <<"Ì", "ì">>, <<"Í", "í">>, <<"Î", "î">>,
   <<"Ï", "ï">>, <<"Ð", "ð">>, <<"Ñ", "ñ">>, <<"Ò", "ò">>, <<"Ó", "ó">>,
   <<"Ô", "ô">>, <<"Õ", "õ">>, <<"Ö", "ö">>, <<"Ø", "ø">>, <<"Ù", "ù">>,
   <<"Ú", "ú">>, <<"Û", "û">>, <<"Ü", "ü">>, <<"Ý", "ý">>, <<"Þ", "þ">>,
   <<"\\u0100", "\\u0101">>, <<"\\u0102", "\\u0103">>,
   <<"\\u0104", "\\u0105">>, <<"\\u0106", "\\u0107">>,
   <<"\\u0108", "\\u0109">>, <<"\\u010A", "\\u010B">>,
   <<"\\u010C", "\\u010D">>, <<"\\u010E", "\\u010F">>,
   <<"\\u0110", "\\u0111">>, <<"\\u0112", "\\u0113">>,
   <<"\\u0114", "\\u0115">>, <<"\\u0116", "\\u0117">>,
   <<"\\u0118", "\\u0119">>, <<"\\u011A", "\\u011B">>,
   <<"\\u011C", "\\u011D">>, <<"\\u011E", "\\u011F">>,
   <<"\\u0120", "\\u0121">>, <<"\\u0122", "\\u0123">>,
   <<"\\u0124", "\\u0125">>, <<"\\u0126", "\\u0127">>,
   <<"\\u0128", "\\u0129">>, <<"\\u012A", "\\u012B">>,
   <<"\\u012C", "\\u012D">>, <<"\\u012E", "\\u012F">>,
   <<"\\u0132", "\\u0133">>, <<"\\u0134", "\\u0135">>,
   <<"\\u0136", "\\u0137">>, <<"\\u0139", "\\u013A">>,
   <<"\\u013B", "\\u013C">>, <<"\\u013D", "\\u013E">>,
   <<"\\u013F", "\\u0140">>, <<"\\u0141", "\\u0142">>,
   <<"\\u0143", "\\u0144">>, <<"\\u0145", "\\u0146">>,
   <<"\\u0147", "\\u0148">>, <<"\\u014A", "\\u014B">>,
   <<"\\u014C", "\\u014D">>, <<"\\u014E", "\\u014F">>,
   <<"\\u0150", "\\u0151">>, <<"\\u0152", "\\u0153">>,
   <<"\\u0154", "\\u0155">>, <<"\\u0156", "\\u0157">>,
   <<"\\u0158", "\\u0159">>, <<"\\u015A", "\\u015B">>,
   <<"\\u015C", "\\u015D">>, <<"\\u015E", "\\u015F">>,
   <<"\\u0160", "\\u0161">>, <<"\\u0162", "\\u0163">>,
   <<"\\u0164", "\\u0165">>, <<"\\u0166", "\\u0167">>,
   <<"\\u0168", "\\u0169">>, <<"\\u016A", "\\u016B">>,
   <<"\\u016C", "\\u016D">>, <<"\\u016E", "\\u016F">>,
   <<"\\u0170", "\\u0171">>, <<"\\u0172", "\\u0173">>,
   <<"\\u0174", "\\u0175">>, <<"\\u0176", "\\u0177">>, <<"\\u0178", "ÿ">>,
   <<"\\u0179", "\\u017A">>, <<"\\u017B", "\\u017C">>,
   <<"\\u017D", "\\u017E">>, <<"Ɓ", "\\u0253">>, <<"Ƃ", "ƃ">>, <<"Ƅ", "ƅ">>,
   <<"Ɔ", "\\u0254">>, <<"Ƈ", "ƈ">>, <<"Ɖ", "\\u0256">>, <<"Ɗ", "\\u0257">>,
   <<"Ƌ", "ƌ">>, <<"Ǝ", "ǝ">>, <<"Ə", "\\u0259">>, <<"Ɛ", "\\u025B">>,
   <<"Ƒ", "ƒ">>, <<"Ɠ", "\\u0260">>, <<"Ɣ", "\\u0263">>, <<"Ɩ", "\\u0269">>,
   <<"Ɨ", "\\u0268">>, <<"Ƙ", "ƙ">>, <<"Ɯ", "\\u026F">>, <<"Ɲ", "\\u0272">>,
   <<"Ɵ", "\\u0275">>, <<"Ơ", "ơ">>, <<"Ƣ", "ƣ">>, <<"Ƥ", "ƥ">>, <<"Ʀ", "ʀ">>,
   <<"Ƨ", "ƨ">>, <<"Ʃ", "ʃ">>, <<"Ƭ", "ƭ">>, <<"Ʈ", "ʈ">>, <<"Ư", "ư">>,
   <<"Ʊ", "ʊ">>, <<"Ʋ", "ʋ">>, <<"Ƴ", "ƴ">>, <<"Ƶ", "ƶ">>, <<"Ʒ", "ʒ">>,
   <<"Ƹ", "ƹ">>, <<"Ƽ", "ƽ">>, <<"Ǆ", "ǆ">>, <<"ǅ", "ǆ">>, <<"Ǉ", "ǉ">>,
   <<"ǈ", "ǉ">>, <<"Ǌ", "ǌ">>, <<"ǋ", "ǌ">>, <<"Ǎ", "ǎ">>, <<"Ǐ", "ǐ">>,
   <<"Ǒ", "ǒ">>, <<"Ǔ", "ǔ">>, <<"Ǖ", "ǖ">>, <<"Ǘ", "ǘ">>, <<"Ǚ", "ǚ">>,
   <<"Ǜ", "ǜ">>, <<"Ǟ", "ǟ">>, <<"Ǡ", "ǡ">>, <<"Ǣ", "ǣ">>, <<"Ǥ", "ǥ">>,
   <<"Ǧ", "ǧ">>, <<"Ǩ", "ǩ">>, <<"Ǫ", "ǫ">>, <<"Ǭ", "ǭ">>, <<"Ǯ", "ǯ">>,
   <<"Ǳ", "ǳ">>, <<"ǲ", "ǳ">>, <<"Ǵ", "ǵ">>, <<"Ƕ", "ƕ">>, <<"Ƿ", "ƿ">>,
   <<"Ǹ", "ǹ">>, <<"Ǻ", "ǻ">>, <<"Ǽ", "ǽ">>, <<"Ǿ", "ǿ">>,
   <<"\\u0200", "\\u0201">>, <<"\\u0202", "\\u0203">>,
   <<"\\u0204", "\\u0205">>, <<"\\u0206", "\\u0207">>,
   <<"\\u0208", "\\u0209">>, <<"\\u020A", "\\u020B">>,
   <<"\\u020C", "\\u020D">>, <<"\\u020E", "\\u020F">>,
   <<"\\u0210", "\\u0211">>, <<"\\u0212", "\\u0213">>,
   <<"\\u0214", "\\u0215">>, <<"\\u0216", "\\u0217">>,
   <<"\\u0218", "\\u0219">>, <<"\\u021A", "\\u021B">>,
   <<"\\u021C", "\\u021D">>, <<"\\u021E", "\\u021F">>, <<"\\u0220", "ƞ">>,
   <<"\\u0222", "\\u0223">>, <<"\\u0224", "\\u0225">>,
   <<"\\u0226", "\\u0227">>, <<"\\u0228", "\\u0229">>,
   <<"\\u022A", "\\u022B">>, <<"\\u022C", "\\u022D">>,
   <<"\\u022E", "\\u022F">>, <<"\\u0230", "\\u0231">>,
   <<"\\u0232", "\\u0233">>, <<"\\u023A", "\\u2C65">>,
   <<"\\u023B", "\\u023C">>, <<"\\u023D", "ƚ">>, <<"\\u023E", "\\u2C66">>,
   <<"\\u0241", "\\u0242">>, <<"\\u0243", "ƀ">>, <<"\\u0244", "ʉ">>,
   <<"\\u0245", "ʌ">>, <<"\\u0246", "\\u0247">>, <<"\\u0248", "\\u0249">>,
   <<"\\u024A", "\\u024B">>, <<"\\u024C", "\\u024D">>,
   <<"\\u024E", "\\u024F">>, <<"\\u0370", "\\u0371">>,
   <<"\\u0372", "\\u0373">>, <<"\\u0376", "\\u0377">>, <<"\\u037F", "ϳ">>,
   <<"Ά", "ά">>, <<"Έ", "έ">>, <<"Ή", "ή">>, <<"Ί", "ί">>, <<"Ό", "ό">>,
   <<"Ύ", "ύ">>, <<"Ώ", "ώ">>, <<"Α", "α">>, <<"Β", "β">>, <<"Γ", "γ">>,
   <<"Δ", "δ">>, <<"Ε", "ε">>, <<"Ζ", "ζ">>, <<"Η", "η">>, <<"Θ", "θ">>,
   <<"Ι", "ι">>, <<"Κ", "κ">>, <<"Λ", "λ">>, <<"Μ", "μ">>, <<"Ν", "ν">>,
   <<"Ξ", "ξ">>, <<"Ο", "ο">>, <<"Π", "π">>, <<"Ρ", "ρ">>, <<"Σ", "σ">>,
   <<"Τ", "τ">>, <<"Υ", "υ">>, <<"Φ", "φ">>, <<"Χ", "χ">>, <<"Ψ", "ψ">>,
   <<"Ω", "ω">>, <<"Ϊ", "ϊ">>, <<"Ϋ", "ϋ">>, <<"Ϗ", "ϗ">>, <<"Ϙ", "ϙ">>,
   <<"Ϛ", "ϛ">>, <<"Ϝ", "ϝ">>, <<"Ϟ", "ϟ">>, <<"Ϡ", "ϡ">>, <<"Ϣ", "ϣ">>,
   <<"Ϥ", "ϥ">>, <<"Ϧ", "ϧ">>, <<"Ϩ", "ϩ">>, <<"Ϫ", "ϫ">>, <<"Ϭ", "ϭ">>,
   <<"Ϯ", "ϯ">>, <<"ϴ", "θ">>, <<"Ϸ", "ϸ">>, <<"Ϲ", "ϲ">>, <<"Ϻ", "ϻ">>,
   <<"Ͻ", "\\u037B">>, <<"Ͼ", "\\u037C">>, <<"Ͽ", "\\u037D">>,
   <<"\\u0400", "\\u0450">>, <<"\\u0401", "\\u0451">>,
   <<"\\u0402", "\\u0452">>, <<"\\u0403", "\\u0453">>,
   <<"\\u0404", "\\u0454">>, <<"\\u0405", "\\u0455">>,
   <<"\\u0406", "\\u0456">>, <<"\\u0407", "\\u0457">>,
   <<"\\u0408", "\\u0458">>, <<"\\u0409", "\\u0459">>,
   <<"\\u040A", "\\u045A">>, <<"\\u040B", "\\u045B">>,
   <<"\\u040C", "\\u045C">>, <<"\\u040D", "\\u045D">>,
   <<"\\u040E", "\\u045E">>, <<"\\u040F", "\\u045F">>,
   <<"\\u0410", "\\u0430">>, <<"\\u0411", "\\u0431">>,
   <<"\\u0412", "\\u0432">>, <<"\\u0413", "\\u0433">>,
   <<"\\u0414", "\\u0434">>, <<"\\u0415", "\\u0435">>,
   <<"\\u0416", "\\u0436">>, <<"\\u0417", "\\u0437">>,
   <<"\\u0418", "\\u0438">>, <<"\\u0419", "\\u0439">>,
   <<"\\u041A", "\\u043A">>, <<"\\u041B", "\\u043B">>,
   <<"\\u041C", "\\u043C">>, <<"\\u041D", "\\u043D">>,
   <<"\\u041E", "\\u043E">>, <<"\\u041F", "\\u043F">>,
   <<"\\u0420", "\\u0440">>, <<"\\u0421", "\\u0441">>,
   <<"\\u0422", "\\u0442">>, <<"\\u0423", "\\u0443">>,
   <<"\\u0424", "\\u0444">>, <<"\\u0425", "\\u0445">>,
   <<"\\u0426", "\\u0446">>, <<"\\u0427", "\\u0447">>,
   <<"\\u0428", "\\u0448">>, <<"\\u0429", "\\u0449">>,
   <<"\\u042A", "\\u044A">>, <<"\\u042B", "\\u044B">>,
   <<"\\u042C", "\\u044C">>, <<"\\u042D", "\\u044D">>,
   <<"\\u042E", "\\u044E">>, <<"\\u042F", "\\u044F">>,
   <<"\\u0460", "\\u0461">>, <<"\\u0462", "\\u0463">>,
   <<"\\u0464", "\\u0465">>, <<"\\u0466", "\\u0467">>,
   <<"\\u0468", "\\u0469">>, <<"\\u046A", "\\u046B">>,
   <<"\\u046C", "\\u046D">>, <<"\\u046E", "\\u046F">>,
   <<"\\u0470", "\\u0471">>, <<"\\u0472", "\\u0473">>,
   <<"\\u0474", "\\u0475">>, <<"\\u0476", "\\u0477">>,
   <<"\\u0478", "\\u0479">>, <<"\\u047A", "\\u047B">>,
   <<"\\u047C", "\\u047D">>, <<"\\u047E", "\\u047F">>, <<"Ҁ", "ҁ">>,
   <<"Ҋ", "ҋ">>, <<"Ҍ", "ҍ">>, <<"Ҏ", "ҏ">>, <<"Ґ", "ґ">>, <<"Ғ", "ғ">>,
   <<"Ҕ", "ҕ">>, <<"Җ", "җ">>, <<"Ҙ", "ҙ">>, <<"Қ", "қ">>, <<"Ҝ", "ҝ">>,
   <<"Ҟ", "ҟ">>, <<"Ҡ", "ҡ">>, <<"Ң", "ң">>, <<"Ҥ", "ҥ">>, <<"Ҧ", "ҧ">>,
   <<"Ҩ", "ҩ">>, <<"Ҫ", "ҫ">>, <<"Ҭ", "ҭ">>, <<"Ү", "ү">>, <<"Ұ", "ұ">>,
   <<"Ҳ", "ҳ">>, <<"Ҵ", "ҵ">>, <<"Ҷ", "ҷ">>, <<"Ҹ", "ҹ">>, <<"Һ", "һ">>,
   <<"Ҽ", "ҽ">>, <<"Ҿ", "ҿ">>, <<"Ӏ", "ӏ">>, <<"Ӂ", "ӂ">>, <<"Ӄ", "ӄ">>,
   <<"Ӆ", "ӆ">>, <<"Ӈ", "ӈ">>, <<"Ӊ", "ӊ">>, <<"Ӌ", "ӌ">>, <<"Ӎ", "ӎ">>,
   <<"Ӑ", "ӑ">>, <<"Ӓ", "ӓ">>, <<"Ӕ", "ӕ">>, <<"Ӗ", "ӗ">>, <<"Ә", "ә">>,
   <<"Ӛ", "ӛ">>, <<"Ӝ", "ӝ">>, <<"Ӟ", "ӟ">>, <<"Ӡ", "ӡ">>, <<"Ӣ", "ӣ">>,
   <<"Ӥ", "ӥ">>, <<"Ӧ", "ӧ">>, <<"Ө", "ө">>, <<"Ӫ", "ӫ">>, <<"Ӭ", "ӭ">>,
   <<"Ӯ", "ӯ">>, <<"Ӱ", "ӱ">>, <<"Ӳ", "ӳ">>, <<"Ӵ", "ӵ">>, <<"Ӷ", "ӷ">>,
   <<"Ӹ", "ӹ">>, <<"Ӻ", "ӻ">>, <<"Ӽ", "ӽ">>, <<"Ӿ", "ӿ">>,
   <<"\\u0500", "\\u0501">>, <<"\\u0502", "\\u0503">>,
   <<"\\u0504", "\\u0505">>, <<"\\u0506", "\\u0507">>,
   <<"\\u0508", "\\u0509">>, <<"\\u050A", "\\u050B">>,
   <<"\\u050C", "\\u050D">>, <<"\\u050E", "\\u050F">>,
   <<"\\u0510", "\\u0511">>, <<"\\u0512", "\\u0513">>,
   <<"\\u0514", "\\u0515">>, <<"\\u0516", "\\u0517">>,
   <<"\\u0518", "\\u0519">>, <<"\\u051A", "\\u051B">>,
   <<"\\u051C", "\\u051D">>, <<"\\u051E", "\\u051F">>,
   <<"\\u0520", "\\u0521">>, <<"\\u0522", "\\u0523">>,
   <<"\\u0524", "\\u0525">>, <<"\\u0526", "\\u0527">>,
   <<"\\u0528", "\\u0529">>, <<"\\u052A", "\\u052B">>,
   <<"\\u052C", "\\u052D">>, <<"\\u052E", "\\u052F">>,
   <<"\\u0531", "\\u0561">>, <<"\\u0532", "\\u0562">>,
   <<"\\u0533", "\\u0563">>, <<"\\u0534", "\\u0564">>,
   <<"\\u0535", "\\u0565">>, <<"\\u0536", "\\u0566">>,
   <<"\\u0537", "\\u0567">>, <<"\\u0538", "\\u0568">>,
   <<"\\u0539", "\\u0569">>, <<"\\u053A", "\\u056A">>,
   <<"\\u053B", "\\u056B">>, <<"\\u053C", "\\u056C">>,
   <<"\\u053D", "\\u056D">>, <<"\\u053E", "\\u056E">>,
   <<"\\u053F", "\\u056F">>, <<"\\u0540", "\\u0570">>,
   <<"\\u0541", "\\u0571">>, <<"\\u0542", "\\u0572">>,
   <<"\\u0543", "\\u0573">>, <<"\\u0544", "\\u0574">>,
   <<"\\u0545", "\\u0575">>, <<"\\u0546", "\\u0576">>,
   <<"\\u0547", "\\u0577">>, <<"\\u0548", "\\u0578">>,
   <<"\\u0549", "\\u0579">>, <<"\\u054A", "\\u057A">>,
   <<"\\u054B", "\\u057B">>, <<"\\u054C", "\\u057C">>,
   <<"\\u054D", "\\u057D">>, <<"\\u054E", "\\u057E">>,
   <<"\\u054F", "\\u057F">>, <<"\\u0550", "ր">>, <<"\\u0551", "ց">>,
   <<"\\u0552", "ւ">>, <<"\\u0553", "փ">>, <<"\\u0554", "ք">>,
   <<"\\u0555", "օ">>, <<"\\u0556", "ֆ">>, <<"Ⴀ", "\\u2D00">>,
   <<"Ⴁ", "\\u2D01">>, <<"Ⴂ", "\\u2D02">>, <<"Ⴃ", "\\u2D03">>,
   <<"Ⴄ", "\\u2D04">>, <<"Ⴅ", "\\u2D05">>, <<"Ⴆ", "\\u2D06">>,
   <<"Ⴇ", "\\u2D07">>, <<"Ⴈ", "\\u2D08">>, <<"Ⴉ", "\\u2D09">>,
   <<"Ⴊ", "\\u2D0A">>, <<"Ⴋ", "\\u2D0B">>, <<"Ⴌ", "\\u2D0C">>,
   <<"Ⴍ", "\\u2D0D">>, <<"Ⴎ", "\\u2D0E">>, <<"Ⴏ", "\\u2D0F">>,
   <<"Ⴐ", "\\u2D10">>, <<"Ⴑ", "\\u2D11">>, <<"Ⴒ", "\\u2D12">>,
   <<"Ⴓ", "\\u2D13">>, <<"Ⴔ", "\\u2D14">>, <<"Ⴕ", "\\u2D15">>,
   <<"Ⴖ", "\\u2D16">>, <<"Ⴗ", "\\u2D17">>, <<"Ⴘ", "\\u2D18">>,
   <<"Ⴙ", "\\u2D19">>, <<"Ⴚ", "\\u2D1A">>, <<"Ⴛ", "\\u2D1B">>,
   <<"Ⴜ", "\\u2D1C">>, <<"Ⴝ", "\\u2D1D">>, <<"Ⴞ", "\\u2D1E">>,
   <<"Ⴟ", "\\u2D1F">>, <<"Ⴠ", "\\u2D20">>, <<"Ⴡ", "\\u2D21">>,
   <<"Ⴢ", "\\u2D22">>, <<"Ⴣ", "\\u2D23">>, <<"Ⴤ", "\\u2D24">>,
   <<"Ⴥ", "\\u2D25">>, <<"Ⴧ", "\\u2D27">>, <<"Ⴭ", "\\u2D2D">>,
   <<"Ꭰ", "\\uAB70">>, <<"Ꭱ", "\\uAB71">>, <<"Ꭲ", "\\uAB72">>,
   <<"Ꭳ", "\\uAB73">>, <<"Ꭴ", "\\uAB74">>, <<"Ꭵ", "\\uAB75">>,
   <<"Ꭶ", "\\uAB76">>, <<"Ꭷ", "\\uAB77">>, <<"Ꭸ", "\\uAB78">>,
   <<"Ꭹ", "\\uAB79">>, <<"Ꭺ", "\\uAB7A">>, <<"Ꭻ", "\\uAB7B">>,
   <<"Ꭼ", "\\uAB7C">>, <<"Ꭽ", "\\uAB7D">>, <<"Ꭾ", "\\uAB7E">>,
   <<"Ꭿ", "\\uAB7F">>, <<"Ꮀ", "ꮀ">>, <<"Ꮁ", "ꮁ">>, <<"Ꮂ", "ꮂ">>, <<"Ꮃ", "ꮃ">>,
   <<"Ꮄ", "ꮄ">>, <<"Ꮅ", "ꮅ">>, <<"Ꮆ", "ꮆ">>, <<"Ꮇ", "ꮇ">>, <<"Ꮈ", "ꮈ">>,
   <<"Ꮉ", "ꮉ">>, <<"Ꮊ", "ꮊ">>, <<"Ꮋ", "ꮋ">>, <<"Ꮌ", "ꮌ">>, <<"Ꮍ", "ꮍ">>,
   <<"Ꮎ", "ꮎ">>, <<"Ꮏ", "ꮏ">>, <<"Ꮐ", "ꮐ">>, <<"Ꮑ", "ꮑ">>, <<"Ꮒ", "ꮒ">>,
   <<"Ꮓ", "ꮓ">>, <<"Ꮔ", "ꮔ">>, <<"Ꮕ", "ꮕ">>, <<"Ꮖ", "ꮖ">>, <<"Ꮗ", "ꮗ">>,
   <<"Ꮘ", "ꮘ">>, <<"Ꮙ", "ꮙ">>, <<"Ꮚ", "ꮚ">>, <<"Ꮛ", "ꮛ">>, <<"Ꮜ", "ꮜ">>,
   <<"Ꮝ", "ꮝ">>, <<"Ꮞ", "ꮞ">>, <<"Ꮟ", "ꮟ">>, <<"Ꮠ", "ꮠ">>, <<"Ꮡ", "ꮡ">>,
   <<"Ꮢ", "ꮢ">>, <<"Ꮣ", "ꮣ">>, <<"Ꮤ", "ꮤ">>, <<"Ꮥ", "ꮥ">>, <<"Ꮦ", "ꮦ">>,
   <<"Ꮧ", "ꮧ">>, <<"Ꮨ", "ꮨ">>, <<"Ꮩ", "ꮩ">>, <<"Ꮪ", "ꮪ">>, <<"Ꮫ", "ꮫ">>,
   <<"Ꮬ", "ꮬ">>, <<"Ꮭ", "ꮭ">>, <<"Ꮮ", "ꮮ">>, <<"Ꮯ", "ꮯ">>, <<"Ꮰ", "ꮰ">>,
   <<"Ꮱ", "ꮱ">>, <<"Ꮲ", "ꮲ">>, <<"Ꮳ", "ꮳ">>, <<"Ꮴ", "ꮴ">>, <<"Ꮵ", "ꮵ">>,
   <<"Ꮶ", "ꮶ">>, <<"Ꮷ", "ꮷ">>, <<"Ꮸ", "ꮸ">>, <<"Ꮹ", "ꮹ">>, <<"Ꮺ", "ꮺ">>,
   <<"Ꮻ", "ꮻ">>, <<"Ꮼ", "ꮼ">>, <<"Ꮽ", "ꮽ">>, <<"Ꮾ", "ꮾ">>, <<"Ꮿ", "ꮿ">>,
   <<"Ᏸ", "ᏸ">>, <<"Ᏹ", "ᏹ">>, <<"Ᏺ", "ᏺ">>, <<"Ᏻ", "ᏻ">>, <<"Ᏼ", "ᏼ">>,
   <<"Ᏽ", "ᏽ">>, <<"Ᲊ", "ᲊ">>, <<"Ა", "ა">>, <<"Ბ", "ბ">>, <<"Გ", "გ">>,
   <<"Დ", "დ">>, <<"Ე", "ე">>, <<"Ვ", "ვ">>, <<"Ზ", "ზ">>, <<"Თ", "თ">>,
   <<"Ი", "ი">>, <<"Კ", "კ">>, <<"Ლ", "ლ">>, <<"Მ", "მ">>, <<"Ნ", "ნ">>,
   <<"Ო", "ო">>, <<"Პ", "პ">>, <<"Ჟ", "ჟ">>, <<"Რ", "რ">>, <<"Ს", "ს">>,
   <<"Ტ", "ტ">>, <<"Უ", "უ">>, <<"Ფ", "ფ">>, <<"Ქ", "ქ">>, <<"Ღ", "ღ">>,
   <<"Ყ", "ყ">>, <<"Შ", "შ">>, <<"Ჩ", "ჩ">>, <<"Ც", "ც">>, <<"Ძ", "ძ">>,
   <<"Წ", "წ">>, <<"Ჭ", "ჭ">>, <<"Ხ", "ხ">>, <<"Ჯ", "ჯ">>, <<"Ჰ", "ჰ">>,
   <<"Ჱ", "ჱ">>, <<"Ჲ", "ჲ">>, <<"Ჳ", "ჳ">>, <<"Ჴ", "ჴ">>, <<"Ჵ", "ჵ">>,
   <<"Ჶ", "ჶ">>, <<"Ჷ", "ჷ">>, <<"Ჸ", "ჸ">>, <<"Ჹ", "ჹ">>, <<"Ჺ", "ჺ">>,
   <<"Ჽ", "ჽ">>, <<"Ჾ", "ჾ">>, <<"Ჿ", "ჿ">>, <<"\\u1E00", "\\u1E01">>,
   <<"\\u1E02", "\\u1E03">>, <<"\\u1E04", "\\u1E05">>,
   <<"\\u1E06", "\\u1E07">>, <<"\\u1E08", "\\u1E09">>,
   <<"\\u1E0A", "\\u1E0B">>, <<"\\u1E0C", "\\u1E0D">>,
   <<"\\u1E0E", "\\u1E0F">>, <<"\\u1E10", "\\u1E11">>,
   <<"\\u1E12", "\\u1E13">>, <<"\\u1E14", "\\u1E15">>,
   <<"\\u1E16", "\\u1E17">>, <<"\\u1E18", "\\u1E19">>,
   <<"\\u1E1A", "\\u1E1B">>, <<"\\u1E1C", "\\u1E1D">>,
   <<"\\u1E1E", "\\u1E1F">>, <<"\\u1E20", "\\u1E21">>,
   <<"\\u1E22", "\\u1E23">>, <<"\\u1E24", "\\u1E25">>,
   <<"\\u1E26", "\\u1E27">>, <<"\\u1E28", "\\u1E29">>,
   <<"\\u1E2A", "\\u1E2B">>, <<"\\u1E2C", "\\u1E2D">>,
   <<"\\u1E2E", "\\u1E2F">>, <<"\\u1E30", "\\u1E31">>,
   <<"\\u1E32", "\\u1E33">>, <<"\\u1E34", "\\u1E35">>,
   <<"\\u1E36", "\\u1E37">>, <<"\\u1E38", "\\u1E39">>,
   <<"\\u1E3A", "\\u1E3B">>, <<"\\u1E3C", "\\u1E3D">>,
   <<"\\u1E3E", "\\u1E3F">>, <<"\\u1E40", "\\u1E41">>,
   <<"\\u1E42", "\\u1E43">>, <<"\\u1E44", "\\u1E45">>,
   <<"\\u1E46", "\\u1E47">>, <<"\\u1E48", "\\u1E49">>,
   <<"\\u1E4A", "\\u1E4B">>, <<"\\u1E4C", "\\u1E4D">>,
   <<"\\u1E4E", "\\u1E4F">>, <<"\\u1E50", "\\u1E51">>,
   <<"\\u1E52", "\\u1E53">>, <<"\\u1E54", "\\u1E55">>,
   <<"\\u1E56", "\\u1E57">>, <<"\\u1E58", "\\u1E59">>,
   <<"\\u1E5A", "\\u1E5B">>, <<"\\u1E5C", "\\u1E5D">>,
   <<"\\u1E5E", "\\u1E5F">>, <<"\\u1E60", "\\u1E61">>,
   <<"\\u1E62", "\\u1E63">>, <<"\\u1E64", "\\u1E65">>,
   <<"\\u1E66", "\\u1E67">>, <<"\\u1E68", "\\u1E69">>,
   <<"\\u1E6A", "\\u1E6B">>, <<"\\u1E6C", "\\u1E6D">>,
   <<"\\u1E6E", "\\u1E6F">>, <<"\\u1E70", "\\u1E71">>,
   <<"\\u1E72", "\\u1E73">>, <<"\\u1E74", "\\u1E75">>,
   <<"\\u1E76", "\\u1E77">>, <<"\\u1E78", "\\u1E79">>,
   <<"\\u1E7A", "\\u1E7B">>, <<"\\u1E7C", "\\u1E7D">>,
   <<"\\u1E7E", "\\u1E7F">>, <<"Ẁ", "ẁ">>, <<"Ẃ", "ẃ">>, <<"Ẅ", "ẅ">>,
   <<"Ẇ", "ẇ">>, <<"Ẉ", "ẉ">>, <<"Ẋ", "ẋ">>, <<"Ẍ", "ẍ">>, <<"Ẏ", "ẏ">>,
   <<"Ẑ", "ẑ">>, <<"Ẓ", "ẓ">>, <<"Ẕ", "ẕ">>, <<"ẞ", "ß">>, <<"Ạ", "ạ">>,
   <<"Ả", "ả">>, <<"Ấ", "ấ">>, <<"Ầ", "ầ">>, <<"Ẩ", "ẩ">>, <<"Ẫ", "ẫ">>,
   <<"Ậ", "ậ">>, <<"Ắ", "ắ">>, <<"Ằ", "ằ">>, <<"Ẳ", "ẳ">>, <<"Ẵ", "ẵ">>,
   <<"Ặ", "ặ">>, <<"Ẹ", "ẹ">>, <<"Ẻ", "ẻ">>, <<"Ẽ", "ẽ">>, <<"Ế", "ế">>,
   <<"Ề", "ề">>, <<"Ể", "ể">>, <<"Ễ", "ễ">>, <<"Ệ", "ệ">>, <<"Ỉ", "ỉ">>,
   <<"Ị", "ị">>, <<"Ọ", "ọ">>, <<"Ỏ", "ỏ">>, <<"Ố", "ố">>, <<"Ồ", "ồ">>,
   <<"Ổ", "ổ">>, <<"Ỗ", "ỗ">>, <<"Ộ", "ộ">>, <<"Ớ", "ớ">>, <<"Ờ", "ờ">>,
   <<"Ở", "ở">>, <<"Ỡ", "ỡ">>, <<"Ợ", "ợ">>, <<"Ụ", "ụ">>, <<"Ủ", "ủ">>,
   <<"Ứ", "ứ">>, <<"Ừ", "ừ">>, <<"Ử", "ử">>, <<"Ữ", "ữ">>, <<"Ự", "ự">>,
   <<"Ỳ", "ỳ">>, <<"Ỵ", "ỵ">>, <<"Ỷ", "ỷ">>, <<"Ỹ", "ỹ">>, <<"Ỻ", "ỻ">>,
   <<"Ỽ", "ỽ">>, <<"Ỿ", "ỿ">>, <<"\\u1F08", "\\u1F00">>,
   <<"\\u1F09", "\\u1F01">>, <<"\\u1F0A", "\\u1F02">>,
   <<"\\u1F0B", "\\u1F03">>, <<"\\u1F0C", "\\u1F04">>,
   <<"\\u1F0D", "\\u1F05">>, <<"\\u1F0E", "\\u1F06">>,
   <<"\\u1F0F", "\\u1F07">>, <<"\\u1F18", "\\u1F10">>,
   <<"\\u1F19", "\\u1F11">>, <<"\\u1F1A", "\\u1F12">>,
   <<"\\u1F1B", "\\u1F13">>, <<"\\u1F1C", "\\u1F14">>,
   <<"\\u1F1D", "\\u1F15">>, <<"\\u1F28", "\\u1F20">>,
   <<"\\u1F29", "\\u1F21">>, <<"\\u1F2A", "\\u1F22">>,
   <<"\\u1F2B", "\\u1F23">>, <<"\\u1F2C", "\\u1F24">>,
   <<"\\u1F2D", "\\u1F25">>, <<"\\u1F2E", "\\u1F26">>,
   <<"\\u1F2F", "\\u1F27">>, <<"\\u1F38", "\\u1F30">>,
   <<"\\u1F39", "\\u1F31">>, <<"\\u1F3A", "\\u1F32">>,
   <<"\\u1F3B", "\\u1F33">>, <<"\\u1F3C", "\\u1F34">>,
   <<"\\u1F3D", "\\u1F35">>, <<"\\u1F3E", "\\u1F36">>,
   <<"\\u1F3F", "\\u1F37">>, <<"\\u1F48", "\\u1F40">>,
   <<"\\u1F49", "\\u1F41">>, <<"\\u1F4A", "\\u1F42">>,
   <<"\\u1F4B", "\\u1F43">>, <<"\\u1F4C", "\\u1F44">>,
   <<"\\u1F4D", "\\u1F45">>, <<"\\u1F59", "\\u1F51">>,
   <<"\\u1F5B", "\\u1F53">>, <<"\\u1F5D", "\\u1F55">>,
   <<"\\u1F5F", "\\u1F57">>, <<"\\u1F68", "\\u1F60">>,
   <<"\\u1F69", "\\u1F61">>, <<"\\u1F6A", "\\u1F62">>,
   <<"\\u1F6B", "\\u1F63">>, <<"\\u1F6C", "\\u1F64">>,
   <<"\\u1F6D", "\\u1F65">>, <<"\\u1F6E", "\\u1F66">>,
   <<"\\u1F6F", "\\u1F67">>, <<"ᾈ", "ᾀ">>, <<"ᾉ", "ᾁ">>, <<"ᾊ", "ᾂ">>,
   <<"ᾋ", "ᾃ">>, <<"ᾌ", "ᾄ">>, <<"ᾍ", "ᾅ">>, <<"ᾎ", "ᾆ">>, <<"ᾏ", "ᾇ">>,
   <<"ᾘ", "ᾐ">>, <<"ᾙ", "ᾑ">>, <<"ᾚ", "ᾒ">>, <<"ᾛ", "ᾓ">>, <<"ᾜ", "ᾔ">>,
   <<"ᾝ", "ᾕ">>, <<"ᾞ", "ᾖ">>, <<"ᾟ", "ᾗ">>, <<"ᾨ", "ᾠ">>, <<"ᾩ", "ᾡ">>,
   <<"ᾪ", "ᾢ">>, <<"ᾫ", "ᾣ">>, <<"ᾬ", "ᾤ">>, <<"ᾭ", "ᾥ">>, <<"ᾮ", "ᾦ">>,
   <<"ᾯ", "ᾧ">>, <<"Ᾰ", "ᾰ">>, <<"Ᾱ", "ᾱ">>, <<"Ὰ", "\\u1F70">>,
   <<"Ά", "\\u1F71">>, <<"ᾼ", "ᾳ">>, <<"Ὲ", "\\u1F72">>, <<"Έ", "\\u1F73">>,
   <<"Ὴ", "\\u1F74">>, <<"Ή", "\\u1F75">>, <<"ῌ", "ῃ">>, <<"Ῐ", "ῐ">>,
   <<"Ῑ", "ῑ">>, <<"Ὶ", "\\u1F76">>, <<"Ί", "\\u1F77">>, <<"Ῠ", "ῠ">>,
   <<"Ῡ", "ῡ">>, <<"Ὺ", "\\u1F7A">>, <<"Ύ", "\\u1F7B">>, <<"Ῥ", "ῥ">>,
   <<"Ὸ", "\\u1F78">>, <<"Ό", "\\u1F79">>, <<"Ὼ", "\\u1F7C">>,
   <<"Ώ", "\\u1F7D">>, <<"ῼ", "ῳ">>, <<"\\u2126", "ω">>, <<"\\u212A", "k">>,
   <<"\\u212B", "å">>, <<"\\u2132", "\\u214E">>, <<"\\u2160", "\\u2170">>,
   <<"\\u2161", "\\u2171">>, <<"\\u2162", "\\u2172">>,
   <<"\\u2163", "\\u2173">>, <<"\\u2164", "\\u2174">>,
   <<"\\u2165", "\\u2175">>, <<"\\u2166", "\\u2176">>,
   <<"\\u2167", "\\u2177">>, <<"\\u2168", "\\u2178">>,
   <<"\\u2169", "\\u2179">>, <<"\\u216A", "\\u217A">>,
   <<"\\u216B", "\\u217B">>, <<"\\u216C", "\\u217C">>,
   <<"\\u216D", "\\u217D">>, <<"\\u216E", "\\u217E">>,
   <<"\\u216F", "\\u217F">>, <<"Ↄ", "ↄ">>, <<"Ⓐ", "ⓐ">>, <<"Ⓑ", "ⓑ">>,
   <<"Ⓒ", "ⓒ">>, <<"Ⓓ", "ⓓ">>, <<"Ⓔ", "ⓔ">>, <<"Ⓕ", "ⓕ">>, <<"Ⓖ", "ⓖ">>,
   <<"Ⓗ", "ⓗ">>, <<"Ⓘ", "ⓘ">>, <<"Ⓙ", "ⓙ">>, <<"Ⓚ", "ⓚ">>, <<"Ⓛ", "ⓛ">>,
   <<"Ⓜ", "ⓜ">>, <<"Ⓝ", "ⓝ">>, <<"Ⓞ", "ⓞ">>, <<"Ⓟ", "ⓟ">>, <<"Ⓠ", "ⓠ">>,
   <<"Ⓡ", "ⓡ">>, <<"Ⓢ", "ⓢ">>, <<"Ⓣ", "ⓣ">>, <<"Ⓤ", "ⓤ">>, <<"Ⓥ", "ⓥ">>,
   <<"Ⓦ", "ⓦ">>, <<"Ⓧ", "ⓧ">>, <<"Ⓨ", "ⓨ">>, <<"Ⓩ", "ⓩ">>,
   <<"\\u2C00", "\\u2C30">>, <<"\\u2C01", "\\u2C31">>,
   <<"\\u2C02", "\\u2C32">>, <<"\\u2C03", "\\u2C33">>,
   <<"\\u2C04", "\\u2C34">>, <<"\\u2C05", "\\u2C35">>,
   <<"\\u2C06", "\\u2C36">>, <<"\\u2C07", "\\u2C37">>,
   <<"\\u2C08", "\\u2C38">>, <<"\\u2C09", "\\u2C39">>,
   <<"\\u2C0A", "\\u2C3A">>, <<"\\u2C0B", "\\u2C3B">>,
   <<"\\u2C0C", "\\u2C3C">>, <<"\\u2C0D", "\\u2C3D">>,
   <<"\\u2C0E", "\\u2C3E">>, <<"\\u2C0F", "\\u2C3F">>,
   <<"\\u2C10", "\\u2C40">>, <<"\\u2C11", "\\u2C41">>,
   <<"\\u2C12", "\\u2C42">>, <<"\\u2C13", "\\u2C43">>,
   <<"\\u2C14", "\\u2C44">>, <<"\\u2C15", "\\u2C45">>,
   <<"\\u2C16", "\\u2C46">>, <<"\\u2C17", "\\u2C47">>,
   <<"\\u2C18", "\\u2C48">>, <<"\\u2C19", "\\u2C49">>,
   <<"\\u2C1A", "\\u2C4A">>, <<"\\u2C1B", "\\u2C4B">>,
   <<"\\u2C1C", "\\u2C4C">>, <<"\\u2C1D", "\\u2C4D">>,
   <<"\\u2C1E", "\\u2C4E">>, <<"\\u2C1F", "\\u2C4F">>,
   <<"\\u2C20", "\\u2C50">>, <<"\\u2C21", "\\u2C51">>,
   <<"\\u2C22", "\\u2C52">>, <<"\\u2C23", "\\u2C53">>,
   <<"\\u2C24", "\\u2C54">>, <<"\\u2C25", "\\u2C55">>,
   <<"\\u2C26", "\\u2C56">>, <<"\\u2C27", "\\u2C57">>,
   <<"\\u2C28", "\\u2C58">>, <<"\\u2C29", "\\u2C59">>,
   <<"\\u2C2A", "\\u2C5A">>, <<"\\u2C2B", "\\u2C5B">>,
   <<"\\u2C2C", "\\u2C5C">>, <<"\\u2C2D", "\\u2C5D">>,
   <<"\\u2C2E", "\\u2C5E">>, <<"\\u2C2F", "\\u2C5F">>,
   <<"\\u2C60", "\\u2C61">>, <<"\\u2C62", "\\u026B">>,
   <<"\\u2C63", "\\u1D7D">>, <<"\\u2C64", "\\u027D">>,
   <<"\\u2C67", "\\u2C68">>, <<"\\u2C69", "\\u2C6A">>,
   <<"\\u2C6B", "\\u2C6C">>, <<"\\u2C6D", "\\u0251">>,
   <<"\\u2C6E", "\\u0271">>, <<"\\u2C6F", "\\u0250">>,
   <<"\\u2C70", "\\u0252">>, <<"\\u2C72", "\\u2C73">>,
   <<"\\u2C75", "\\u2C76">>, <<"\\u2C7E", "\\u023F">>,
   <<"\\u2C7F", "\\u0240">>, <<"Ⲁ", "ⲁ">>, <<"Ⲃ", "ⲃ">>, <<"Ⲅ", "ⲅ">>,
   <<"Ⲇ", "ⲇ">>, <<"Ⲉ", "ⲉ">>, <<"Ⲋ", "ⲋ">>, <<"Ⲍ", "ⲍ">>, <<"Ⲏ", "ⲏ">>,
   <<"Ⲑ", "ⲑ">>, <<"Ⲓ", "ⲓ">>, <<"Ⲕ", "ⲕ">>, <<"Ⲗ", "ⲗ">>, <<"Ⲙ", "ⲙ">>,
   <<"Ⲛ", "ⲛ">>, <<"Ⲝ", "ⲝ">>, <<"Ⲟ", "ⲟ">>, <<"Ⲡ", "ⲡ">>, <<"Ⲣ", "ⲣ">>,
   <<"Ⲥ", "ⲥ">>, <<"Ⲧ", "ⲧ">>, <<"Ⲩ", "ⲩ">>, <<"Ⲫ", "ⲫ">>, <<"Ⲭ", "ⲭ">>,
   <<"Ⲯ", "ⲯ">>, <<"Ⲱ", "ⲱ">>, <<"Ⲳ", "ⲳ">>, <<"Ⲵ", "ⲵ">>, <<"Ⲷ", "ⲷ">>,
   <<"Ⲹ", "ⲹ">>, <<"Ⲻ", "ⲻ">>, <<"Ⲽ", "ⲽ">>, <<"Ⲿ", "ⲿ">>, <<"Ⳁ", "ⳁ">>,
   <<"Ⳃ", "ⳃ">>, <<"Ⳅ", "ⳅ">>, <<"Ⳇ", "ⳇ">>, <<"Ⳉ", "ⳉ">>, <<"Ⳋ", "ⳋ">>,
   <<"Ⳍ", "ⳍ">>, <<"Ⳏ", "ⳏ">>, <<"Ⳑ", "ⳑ">>, <<"Ⳓ", "ⳓ">>, <<"Ⳕ", "ⳕ">>,
   <<"Ⳗ", "ⳗ">>, <<"Ⳙ", "ⳙ">>, <<"Ⳛ", "ⳛ">>, <<"Ⳝ", "ⳝ">>, <<"Ⳟ", "ⳟ">>,
   <<"Ⳡ", "ⳡ">>, <<"Ⳣ", "ⳣ">>, <<"Ⳬ", "ⳬ">>, <<"Ⳮ", "ⳮ">>, <<"Ⳳ", "ⳳ">>,
   <<"\\uA640", "\\uA641">>, <<"\\uA642", "\\uA643">>,
   <<"\\uA644", "\\uA645">>, <<"\\uA646", "\\uA647">>,
   <<"\\uA648", "\\uA649">>, <<"\\uA64A", "\\uA64B">>,
   <<"\\uA64C", "\\uA64D">>, <<"\\uA64E", "\\uA64F">>,
   <<"\\uA650", "\\uA651">>, <<"\\uA652", "\\uA653">>,
   <<"\\uA654", "\\uA655">>, <<"\\uA656", "\\uA657">>,
   <<"\\uA658", "\\uA659">>, <<"\\uA65A", "\\uA65B">>,
   <<"\\uA65C", "\\uA65D">>, <<"\\uA65E", "\\uA65F">>,
   <<"\\uA660", "\\uA661">>, <<"\\uA662", "\\uA663">>,
   <<"\\uA664", "\\uA665">>, <<"\\uA666", "\\uA667">>,
   <<"\\uA668", "\\uA669">>, <<"\\uA66A", "\\uA66B">>,
   <<"\\uA66C", "\\uA66D">>, <<"Ꚁ", "ꚁ">>, <<"Ꚃ", "ꚃ">>, <<"Ꚅ", "ꚅ">>,
   <<"Ꚇ", "ꚇ">>, <<"Ꚉ", "ꚉ">>, <<"Ꚋ", "ꚋ">>, <<"Ꚍ", "ꚍ">>, <<"Ꚏ", "ꚏ">>,
   <<"Ꚑ", "ꚑ">>, <<"Ꚓ", "ꚓ">>, <<"Ꚕ", "ꚕ">>, <<"Ꚗ", "ꚗ">>, <<"Ꚙ", "ꚙ">>,
   <<"Ꚛ", "ꚛ">>, <<"\\uA722", "\\uA723">>, <<"\\uA724", "\\uA725">>,
   <<"\\uA726", "\\uA727">>, <<"\\uA728", "\\uA729">>,
   <<"\\uA72A", "\\uA72B">>, <<"\\uA72C", "\\uA72D">>,
   <<"\\uA72E", "\\uA72F">>, <<"\\uA732", "\\uA733">>,
   <<"\\uA734", "\\uA735">>, <<"\\uA736", "\\uA737">>,
   <<"\\uA738", "\\uA739">>, <<"\\uA73A", "\\uA73B">>,
   <<"\\uA73C", "\\uA73D">>, <<"\\uA73E", "\\uA73F">>,
   <<"\\uA740", "\\uA741">>, <<"\\uA742", "\\uA743">>,
   <<"\\uA744", "\\uA745">>, <<"\\uA746", "\\uA747">>,
   <<"\\uA748", "\\uA749">>, <<"\\uA74A", "\\uA74B">>,
   <<"\\uA74C", "\\uA74D">>, <<"\\uA74E", "\\uA74F">>,
   <<"\\uA750", "\\uA751">>, <<"\\uA752", "\\uA753">>,
   <<"\\uA754", "\\uA755">>, <<"\\uA756", "\\uA757">>,
   <<"\\uA758", "\\uA759">>, <<"\\uA75A", "\\uA75B">>,
   <<"\\uA75C", "\\uA75D">>, <<"\\uA75E", "\\uA75F">>,
   <<"\\uA760", "\\uA761">>, <<"\\uA762", "\\uA763">>,
   <<"\\uA764", "\\uA765">>, <<"\\uA766", "\\uA767">>,
   <<"\\uA768", "\\uA769">>, <<"\\uA76A", "\\uA76B">>,
   <<"\\uA76C", "\\uA76D">>, <<"\\uA76E", "\\uA76F">>,
   <<"\\uA779", "\\uA77A">>, <<"\\uA77B", "\\uA77C">>,
   <<"\\uA77D", "\\u1D79">>, <<"\\uA77E", "\\uA77F">>, <<"Ꞁ", "ꞁ">>,
   <<"Ꞃ", "ꞃ">>, <<"Ꞅ", "ꞅ">>, <<"Ꞇ", "ꞇ">>, <<"Ꞌ", "ꞌ">>, <<"Ɥ", "\\u0265">>,
   <<"Ꞑ", "ꞑ">>, <<"Ꞓ", "ꞓ">>, <<"Ꞗ", "ꞗ">>, <<"Ꞙ", "ꞙ">>, <<"Ꞛ", "ꞛ">>,
   <<"Ꞝ", "ꞝ">>, <<"Ꞟ", "ꞟ">>, <<"Ꞡ", "ꞡ">>, <<"Ꞣ", "ꞣ">>, <<"Ꞥ", "ꞥ">>,
   <<"Ꞧ", "ꞧ">>, <<"Ꞩ", "ꞩ">>, <<"Ɦ", "\\u0266">>, <<"Ɜ", "\\u025C">>,
   <<"Ɡ", "\\u0261">>, <<"Ɬ", "\\u026C">>, <<"Ɪ", "\\u026A">>, <<"Ʞ", "ʞ">>,
   <<"Ʇ", "ʇ">>, <<"Ʝ", "ʝ">>, <<"Ꭓ", "\\uAB53">>, <<"Ꞵ", "ꞵ">>, <<"Ꞷ", "ꞷ">>,
   <<"Ꞹ", "ꞹ">>, <<"Ꞻ", "ꞻ">>, <<"Ꞽ", "ꞽ">>, <<"Ꞿ", "ꞿ">>, <<"Ꟁ", "ꟁ">>,
   <<"Ꟃ", "ꟃ">>, <<"Ꞔ", "ꞔ">>, <<"Ʂ", "ʂ">>, <<"Ᶎ", "ᶎ">>, <<"Ꟈ", "ꟈ">>,
   <<"Ꟊ", "ꟊ">>, <<"Ɤ", "\\u0264">>, <<"Ꟍ", "ꟍ">>, <<"꟎", "꟏">>, <<"Ꟑ", "ꟑ">>,
   <<"꟒", "ꟓ">>, <<"꟔", "ꟕ">>, <<"Ꟗ", "ꟗ">>, <<"Ꟙ", "ꟙ">>, <<"Ꟛ", "ꟛ">>,
   <<"Ƛ", "ƛ">>, <<"Ꟶ", "ꟶ">>, <<"\\uFF21", "\\uFF41">>,
   <<"\\uFF22", "\\uFF42">>, <<"\\uFF23", "\\uFF43">>,
   <<"\\uFF24", "\\uFF44">>, <<"\\uFF25", "\\uFF45">>,
   <<"\\uFF26", "\\uFF46">>, <<"\\uFF27", "\\uFF47">>,
   <<"\\uFF28", "\\uFF48">>, <<"\\uFF29", "\\uFF49">>,
   <<"\\uFF2A", "\\uFF4A">>, <<"\\uFF2B", "\\uFF4B">>,
   <<"\\uFF2C", "\\uFF4C">>, <<"\\uFF2D", "\\uFF4D">>,
   <<"\\uFF2E", "\\uFF4E">>, <<"\\uFF2F", "\\uFF4F">>,
   <<"\\uFF30", "\\uFF50">>, <<"\\uFF31", "\\uFF51">>,
   <<"\\uFF32", "\\uFF52">>, <<"\\uFF33", "\\uFF53">>,
   <<"\\uFF34", "\\uFF54">>, <<"\\uFF35", "\\uFF55">>,
   <<"\\uFF36", "\\uFF56">>, <<"\\uFF37", "\\uFF57">>,
   <<"\\uFF38", "\\uFF58">>, <<"\\uFF39", "\\uFF59">>,
   <<"\\uFF3A", "\\uFF5A">>}

\* The same beyond U+FFFF, where a character is two code units
AstralLowerPairs ==
  {<<<<"\\uD801", "\\uDC00">>, <<"\\uD801", "\\uDC28">>>>,
   <<<<"\\uD801", "\\uDC01">>, <<"\\uD801", "\\uDC29">>>>,
   <<<<"\\uD801", "\\uDC02">>, <<"\\uD801", "\\uDC2A">>>>,
   <<<<"\\uD801", "\\uDC03">>, <<"\\uD801", "\\uDC2B">>>>,
   <<<<"\\uD801", "\\uDC04">>, <<"\\uD801", "\\uDC2C">>>>,
   <<<<"\\uD801", "\\uDC05">>, <<"\\uD801", "\\uDC2D">>>>,
   <<<<"\\uD801", "\\uDC06">>, <<"\\uD801", "\\uDC2E">>>>,
   <<<<"\\uD801", "\\uDC07">>, <<"\\uD801", "\\uDC2F">>>>,
   <<<<"\\uD801", "\\uDC08">>, <<"\\uD801", "\\uDC30">>>>,
   <<<<"\\uD801", "\\uDC09">>, <<"\\uD801", "\\uDC31">>>>,
   <<<<"\\uD801", "\\uDC0A">>, <<"\\uD801", "\\uDC32">>>>,
   <<<<"\\uD801", "\\uDC0B">>, <<"\\uD801", "\\uDC33">>>>,
   <<<<"\\uD801", "\\uDC0C">>, <<"\\uD801", "\\uDC34">>>>,
   <<<<"\\uD801", "\\uDC0D">>, <<"\\uD801", "\\uDC35">>>>,
   <<<<"\\uD801", "\\uDC0E">>, <<"\\uD801", "\\uDC36">>>>,
   <<<<"\\uD801", "\\uDC0F">>, <<"\\uD801", "\\uDC37">>>>,
   <<<<"\\uD801", "\\uDC10">>, <<"\\uD801", "\\uDC38">>>>,
   <<<<"\\uD801", "\\uDC11">>, <<"\\uD801", "\\uDC39">>>>,
   <<<<"\\uD801", "\\uDC12">>, <<"\\uD801", "\\uDC3A">>>>,
   <<<<"\\uD801", "\\uDC13">>, <<"\\uD801", "\\uDC3B">>>>,
   <<<<"\\uD801", "\\uDC14">>, <<"\\uD801", "\\uDC3C">>>>,
   <<<<"\\uD801", "\\uDC15">>, <<"\\uD801", "\\uDC3D">>>>,
   <<<<"\\uD801", "\\uDC16">>, <<"\\uD801", "\\uDC3E">>>>,
   <<<<"\\uD801", "\\uDC17">>, <<"\\uD801", "\\uDC3F">>>>,
   <<<<"\\uD801", "\\uDC18">>, <<"\\uD801", "\\uDC40">>>>,
   <<<<"\\uD801", "\\uDC19">>, <<"\\uD801", "\\uDC41">>>>,
   <<<<"\\uD801", "\\uDC1A">>, <<"\\uD801", "\\uDC42">>>>,
   <<<<"\\uD801", "\\uDC1B">>, <<"\\uD801", "\\uDC43">>>>,
   <<<<"\\uD801", "\\uDC1C">>, <<"\\uD801", "\\uDC44">>>>,
   <<<<"\\uD801", "\\uDC1D">>, <<"\\uD801", "\\uDC45">>>>,
   <<<<"\\uD801", "\\uDC1E">>, <<"\\uD801", "\\uDC46">>>>,
   <<<<"\\uD801", "\\uDC1F">>, <<"\\uD801", "\\uDC47">>>>,
   <<<<"\\uD801", "\\uDC20">>, <<"\\uD801", "\\uDC48">>>>,
   <<<<"\\uD801", "\\uDC21">>, <<"\\uD801", "\\uDC49">>>>,
   <<<<"\\uD801", "\\uDC22">>, <<"\\uD801", "\\uDC4A">>>>,
   <<<<"\\uD801", "\\uDC23">>, <<"\\uD801", "\\uDC4B">>>>,
   <<<<"\\uD801", "\\uDC24">>, <<"\\uD801", "\\uDC4C">>>>,
   <<<<"\\uD801", "\\uDC25">>, <<"\\uD801", "\\uDC4D">>>>,
   <<<<"\\uD801", "\\uDC26">>, <<"\\uD801", "\\uDC4E">>>>,
   <<<<"\\uD801", "\\uDC27">>, <<"\\uD801", "\\uDC4F">>>>,
   <<<<"\\uD801", "\\uDCB0">>, <<"\\uD801", "\\uDCD8">>>>,
   <<<<"\\uD801", "\\uDCB1">>, <<"\\uD801", "\\uDCD9">>>>,
   <<<<"\\uD801", "\\uDCB2">>, <<"\\uD801", "\\uDCDA">>>>,
   <<<<"\\uD801", "\\uDCB3">>, <<"\\uD801", "\\uDCDB">>>>,
   <<<<"\\uD801", "\\uDCB4">>, <<"\\uD801", "\\uDCDC">>>>,
   <<<<"\\uD801", "\\uDCB5">>, <<"\\uD801", "\\uDCDD">>>>,
   <<<<"\\uD801", "\\uDCB6">>, <<"\\uD801", "\\uDCDE">>>>,
   <<<<"\\uD801", "\\uDCB7">>, <<"\\uD801", "\\uDCDF">>>>,
   <<<<"\\uD801", "\\uDCB8">>, <<"\\uD801", "\\uDCE0">>>>,
   <<<<"\\uD801", "\\uDCB9">>, <<"\\uD801", "\\uDCE1">>>>,
   <<<<"\\uD801", "\\uDCBA">>, <<"\\uD801", "\\uDCE2">>>>,
   <<<<"\\uD801", "\\uDCBB">>, <<"\\uD801", "\\uDCE3">>>>,
   <<<<"\\uD801", "\\uDCBC">>, <<"\\uD801", "\\uDCE4">>>>,
   <<<<"\\uD801", "\\uDCBD">>, <<"\\uD801", "\\uDCE5">>>>,
   <<<<"\\uD801", "\\uDCBE">>, <<"\\uD801", "\\uDCE6">>>>,
   <<<<"\\uD801", "\\uDCBF">>, <<"\\uD801", "\\uDCE7">>>>,
   <<<<"\\uD801", "\\uDCC0">>, <<"\\uD801", "\\uDCE8">>>>,
   <<<<"\\uD801", "\\uDCC1">>, <<"\\uD801", "\\uDCE9">>>>,
   <<<<"\\uD801", "\\uDCC2">>, <<"\\uD801", "\\uDCEA">>>>,
   <<<<"\\uD801", "\\uDCC3">>, <<"\\uD801", "\\uDCEB">>>>,
   <<<<"\\uD801", "\\uDCC4">>, <<"\\uD801", "\\uDCEC">>>>,
   <<<<"\\uD801", "\\uDCC5">>, <<"\\uD801", "\\uDCED">>>>,
   <<<<"\\uD801", "\\uDCC6">>, <<"\\uD801", "\\uDCEE">>>>,
   <<<<"\\uD801", "\\uDCC7">>, <<"\\uD801", "\\uDCEF">>>>,
   <<<<"\\uD801", "\\uDCC8">>, <<"\\uD801", "\\uDCF0">>>>,
   <<<<"\\uD801", "\\uDCC9">>, <<"\\uD801", "\\uDCF1">>>>,
   <<<<"\\uD801", "\\uDCCA">>, <<"\\uD801", "\\uDCF2">>>>,
   <<<<"\\uD801", "\\uDCCB">>, <<"\\uD801", "\\uDCF3">>>>,
   <<<<"\\uD801", "\\uDCCC">>, <<"\\uD801", "\\uDCF4">>>>,
   <<<<"\\uD801", "\\uDCCD">>, <<"\\uD801", "\\uDCF5">>>>,
   <<<<"\\uD801", "\\uDCCE">>, <<"\\uD801", "\\uDCF6">>>>,
   <<<<"\\uD801", "\\uDCCF">>, <<"\\uD801", "\\uDCF7">>>>,
   <<<<"\\uD801", "\\uDCD0">>, <<"\\uD801", "\\uDCF8">>>>,
   <<<<"\\uD801", "\\uDCD1">>, <<"\\uD801", "\\uDCF9">>>>,
   <<<<"\\uD801", "\\uDCD2">>, <<"\\uD801", "\\uDCFA">>>>,
   <<<<"\\uD801", "\\uDCD3">>, <<"\\uD801", "\\uDCFB">>>>,
   <<<<"\\uD801", "\\uDD70">>, <<"\\uD801", "\\uDD97">>>>,
   <<<<"\\uD801", "\\uDD71">>, <<"\\uD801", "\\uDD98">>>>,
   <<<<"\\uD801", "\\uDD72">>, <<"\\uD801", "\\uDD99">>>>,
   <<<<"\\uD801", "\\uDD73">>, <<"\\uD801", "\\uDD9A">>>>,
   <<<<"\\uD801", "\\uDD74">>, <<"\\uD801", "\\uDD9B">>>>,
   <<<<"\\uD801", "\\uDD75">>, <<"\\uD801", "\\uDD9C">>>>,
   <<<<"\\uD801", "\\uDD76">>, <<"\\uD801", "\\uDD9D">>>>,
   <<<<"\\uD801", "\\uDD77">>, <<"\\uD801", "\\uDD9E">>>>,
   <<<<"\\uD801", "\\uDD78">>, <<"\\uD801", "\\uDD9F">>>>,
   <<<<"\\uD801", "\\uDD79">>, <<"\\uD801", "\\uDDA0">>>>,
   <<<<"\\uD801", "\\uDD7A">>, <<"\\uD801", "\\uDDA1">>>>,
   <<<<"\\uD801", "\\uDD7C">>, <<"\\uD801", "\\uDDA3">>>>,
   <<<<"\\uD801", "\\uDD7D">>, <<"\\uD801", "\\uDDA4">>>>,
   <<<<"\\uD801", "\\uDD7E">>, <<"\\uD801", "\\uDDA5">>>>,
   <<<<"\\uD801", "\\uDD7F">>, <<"\\uD801", "\\uDDA6">>>>,
   <<<<"\\uD801", "\\uDD80">>, <<"\\uD801", "\\uDDA7">>>>,
   <<<<"\\uD801", "\\uDD81">>, <<"\\uD801", "\\uDDA8">>>>,
   <<<<"\\uD801", "\\uDD82">>, <<"\\uD801", "\\uDDA9">>>>,
   <<<<"\\uD801", "\\uDD83">>, <<"\\uD801", "\\uDDAA">>>>,
   <<<<"\\uD801", "\\uDD84">>, <<"\\uD801", "\\uDDAB">>>>,
   <<<<"\\uD801", "\\uDD85">>, <<"\\uD801", "\\uDDAC">>>>,
   <<<<"\\uD801", "\\uDD86">>, <<"\\uD801", "\\uDDAD">>>>,
   <<<<"\\uD801", "\\uDD87">>, <<"\\uD801", "\\uDDAE">>>>,
   <<<<"\\uD801", "\\uDD88">>, <<"\\uD801", "\\uDDAF">>>>,
   <<<<"\\uD801", "\\uDD89">>, <<"\\uD801", "\\uDDB0">>>>,
   <<<<"\\uD801", "\\uDD8A">>, <<"\\uD801", "\\uDDB1">>>>,
   <<<<"\\uD801", "\\uDD8C">>, <<"\\uD801", "\\uDDB3">>>>,
   <<<<"\\uD801", "\\uDD8D">>, <<"\\uD801", "\\uDDB4">>>>,
   <<<<"\\uD801", "\\uDD8E">>, <<"\\uD801", "\\uDDB5">>>>,
   <<<<"\\uD801", "\\uDD8F">>, <<"\\uD801", "\\uDDB6">>>>,
   <<<<"\\uD801", "\\uDD90">>, <<"\\uD801", "\\uDDB7">>>>,
   <<<<"\\uD801", "\\uDD91">>, <<"\\uD801", "\\uDDB8">>>>,
   <<<<"\\uD801", "\\uDD92">>, <<"\\uD801", "\\uDDB9">>>>,
   <<<<"\\uD801", "\\uDD94">>, <<"\\uD801", "\\uDDBB">>>>,
   <<<<"\\uD801", "\\uDD95">>, <<"\\uD801", "\\uDDBC">>>>,
   <<<<"\\uD803", "\\uDC80">>, <<"\\uD803", "\\uDCC0">>>>,
   <<<<"\\uD803", "\\uDC81">>, <<"\\uD803", "\\uDCC1">>>>,
   <<<<"\\uD803", "\\uDC82">>, <<"\\uD803", "\\uDCC2">>>>,
   <<<<"\\uD803", "\\uDC83">>, <<"\\uD803", "\\uDCC3">>>>,
   <<<<"\\uD803", "\\uDC84">>, <<"\\uD803", "\\uDCC4">>>>,
   <<<<"\\uD803", "\\uDC85">>, <<"\\uD803", "\\uDCC5">>>>,
   <<<<"\\uD803", "\\uDC86">>, <<"\\uD803", "\\uDCC6">>>>,
   <<<<"\\uD803", "\\uDC87">>, <<"\\uD803", "\\uDCC7">>>>,
   <<<<"\\uD803", "\\uDC88">>, <<"\\uD803", "\\uDCC8">>>>,
   <<<<"\\uD803", "\\uDC89">>, <<"\\uD803", "\\uDCC9">>>>,
   <<<<"\\uD803", "\\uDC8A">>, <<"\\uD803", "\\uDCCA">>>>,
   <<<<"\\uD803", "\\uDC8B">>, <<"\\uD803", "\\uDCCB">>>>,
   <<<<"\\uD803", "\\uDC8C">>, <<"\\uD803", "\\uDCCC">>>>,
   <<<<"\\uD803", "\\uDC8D">>, <<"\\uD803", "\\uDCCD">>>>,
   <<<<"\\uD803", "\\uDC8E">>, <<"\\uD803", "\\uDCCE">>>>,
   <<<<"\\uD803", "\\uDC8F">>, <<"\\uD803", "\\uDCCF">>>>,
   <<<<"\\uD803", "\\uDC90">>, <<"\\uD803", "\\uDCD0">>>>,
   <<<<"\\uD803", "\\uDC91">>, <<"\\uD803", "\\uDCD1">>>>,
   <<<<"\\uD803", "\\uDC92">>, <<"\\uD803", "\\uDCD2">>>>,
   <<<<"\\uD803", "\\uDC93">>, <<"\\uD803", "\\uDCD3">>>>,
   <<<<"\\uD803", "\\uDC94">>, <<"\\uD803", "\\uDCD4">>>>,
   <<<<"\\uD803", "\\uDC95">>, <<"\\uD803", "\\uDCD5">>>>,
   <<<<"\\uD803", "\\uDC96">>, <<"\\uD803", "\\uDCD6">>>>,
   <<<<"\\uD803", "\\uDC97">>, <<"\\uD803", "\\uDCD7">>>>,
   <<<<"\\uD803", "\\uDC98">>, <<"\\uD803", "\\uDCD8">>>>,
   <<<<"\\uD803", "\\uDC99">>, <<"\\uD803", "\\uDCD9">>>>,
   <<<<"\\uD803", "\\uDC9A">>, <<"\\uD803", "\\uDCDA">>>>,
   <<<<"\\uD803", "\\uDC9B">>, <<"\\uD803", "\\uDCDB">>>>,
   <<<<"\\uD803", "\\uDC9C">>, <<"\\uD803", "\\uDCDC">>>>,
   <<<<"\\uD803", "\\uDC9D">>, <<"\\uD803", "\\uDCDD">>>>,
   <<<<"\\uD803", "\\uDC9E">>, <<"\\uD803", "\\uDCDE">>>>,
   <<<<"\\uD803", "\\uDC9F">>, <<"\\uD803", "\\uDCDF">>>>,
   <<<<"\\uD803", "\\uDCA0">>, <<"\\uD803", "\\uDCE0">>>>,
   <<<<"\\uD803", "\\uDCA1">>, <<"\\uD803", "\\uDCE1">>>>,
   <<<<"\\uD803", "\\uDCA2">>, <<"\\uD803", "\\uDCE2">>>>,
   <<<<"\\uD803", "\\uDCA3">>, <<"\\uD803", "\\uDCE3">>>>,
   <<<<"\\uD803", "\\uDCA4">>, <<"\\uD803", "\\uDCE4">>>>,
   <<<<"\\uD803", "\\uDCA5">>, <<"\\uD803", "\\uDCE5">>>>,
   <<<<"\\uD803", "\\uDCA6">>, <<"\\uD803", "\\uDCE6">>>>,
   <<<<"\\uD803", "\\uDCA7">>, <<"\\uD803", "\\uDCE7">>>>,
   <<<<"\\uD803", "\\uDCA8">>, <<"\\uD803", "\\uDCE8">>>>,
   <<<<"\\uD803", "\\uDCA9">>, <<"\\uD803", "\\uDCE9">>>>,
   <<<<"\\uD803", "\\uDCAA">>, <<"\\uD803", "\\uDCEA">>>>,
   <<<<"\\uD803", "\\uDCAB">>, <<"\\uD803", "\\uDCEB">>>>,
   <<<<"\\uD803", "\\uDCAC">>, <<"\\uD803", "\\uDCEC">>>>,
   <<<<"\\uD803", "\\uDCAD">>, <<"\\uD803", "\\uDCED">>>>,
   <<<<"\\uD803", "\\uDCAE">>, <<"\\uD803", "\\uDCEE">>>>,
   <<<<"\\uD803", "\\uDCAF">>, <<"\\uD803", "\\uDCEF">>>>,
   <<<<"\\uD803", "\\uDCB0">>, <<"\\uD803", "\\uDCF0">>>>,
   <<<<"\\uD803", "\\uDCB1">>, <<"\\uD803", "\\uDCF1">>>>,
   <<<<"\\uD803", "\\uDCB2">>, <<"\\uD803", "\\uDCF2">>>>,
   <<<<"\\uD803", "\\uDD50">>, <<"\\uD803", "\\uDD70">>>>,
   <<<<"\\uD803", "\\uDD51">>, <<"\\uD803", "\\uDD71">>>>,
   <<<<"\\uD803", "\\uDD52">>, <<"\\uD803", "\\uDD72">>>>,
   <<<<"\\uD803", "\\uDD53">>, <<"\\uD803", "\\uDD73">>>>,
   <<<<"\\uD803", "\\uDD54">>, <<"\\uD803", "\\uDD74">>>>,
   <<<<"\\uD803", "\\uDD55">>, <<"\\uD803", "\\uDD75">>>>,
   <<<<"\\uD803", "\\uDD56">>, <<"\\uD803", "\\uDD76">>>>,
   <<<<"\\uD803", "\\uDD57">>, <<"\\uD803", "\\uDD77">>>>,
   <<<<"\\uD803", "\\uDD58">>, <<"\\uD803", "\\uDD78">>>>,
   <<<<"\\uD803", "\\uDD59">>, <<"\\uD803", "\\uDD79">>>>,
   <<<<"\\uD803", "\\uDD5A">>, <<"\\uD803", "\\uDD7A">>>>,
   <<<<"\\uD803", "\\uDD5B">>, <<"\\uD803", "\\uDD7B">>>>,
   <<<<"\\uD803", "\\uDD5C">>, <<"\\uD803", "\\uDD7C">>>>,
   <<<<"\\uD803", "\\uDD5D">>, <<"\\uD803", "\\uDD7D">>>>,
   <<<<"\\uD803", "\\uDD5E">>, <<"\\uD803", "\\uDD7E">>>>,
   <<<<"\\uD803", "\\uDD5F">>, <<"\\uD803", "\\uDD7F">>>>,
   <<<<"\\uD803", "\\uDD60">>, <<"\\uD803", "\\uDD80">>>>,
   <<<<"\\uD803", "\\uDD61">>, <<"\\uD803", "\\uDD81">>>>,
   <<<<"\\uD803", "\\uDD62">>, <<"\\uD803", "\\uDD82">>>>,
   <<<<"\\uD803", "\\uDD63">>, <<"\\uD803", "\\uDD83">>>>,
   <<<<"\\uD803", "\\uDD64">>, <<"\\uD803", "\\uDD84">>>>,
   <<<<"\\uD803", "\\uDD65">>, <<"\\uD803", "\\uDD85">>>>,
   <<<<"\\uD806", "\\uDCA0">>, <<"\\uD806", "\\uDCC0">>>>,
   <<<<"\\uD806", "\\uDCA1">>, <<"\\uD806", "\\uDCC1">>>>,
   <<<<"\\uD806", "\\uDCA2">>, <<"\\uD806", "\\uDCC2">>>>,
   <<<<"\\uD806", "\\uDCA3">>, <<"\\uD806", "\\uDCC3">>>>,
   <<<<"\\uD806", "\\uDCA4">>, <<"\\uD806", "\\uDCC4">>>>,
   <<<<"\\uD806", "\\uDCA5">>, <<"\\uD806", "\\uDCC5">>>>,
   <<<<"\\uD806", "\\uDCA6">>, <<"\\uD806", "\\uDCC6">>>>,
   <<<<"\\uD806", "\\uDCA7">>, <<"\\uD806", "\\uDCC7">>>>,
   <<<<"\\uD806", "\\uDCA8">>, <<"\\uD806", "\\uDCC8">>>>,
   <<<<"\\uD806", "\\uDCA9">>, <<"\\uD806", "\\uDCC9">>>>,
   <<<<"\\uD806", "\\uDCAA">>, <<"\\uD806", "\\uDCCA">>>>,
   <<<<"\\uD806", "\\uDCAB">>, <<"\\uD806", "\\uDCCB">>>>,
   <<<<"\\uD806", "\\uDCAC">>, <<"\\uD806", "\\uDCCC">>>>,
   <<<<"\\uD806", "\\uDCAD">>, <<"\\uD806", "\\uDCCD">>>>,
   <<<<"\\uD806", "\\uDCAE">>, <<"\\uD806", "\\uDCCE">>>>,
   <<<<"\\uD806", "\\uDCAF">>, <<"\\uD806", "\\uDCCF">>>>,
   <<<<"\\uD806", "\\uDCB0">>, <<"\\uD806", "\\uDCD0">>>>,
   <<<<"\\uD806", "\\uDCB1">>, <<"\\uD806", "\\uDCD1">>>>,
   <<<<"\\uD806", "\\uDCB2">>, <<"\\uD806", "\\uDCD2">>>>,
   <<<<"\\uD806", "\\uDCB3">>, <<"\\uD806", "\\uDCD3">>>>,
   <<<<"\\uD806", "\\uDCB4">>, <<"\\uD806", "\\uDCD4">>>>,
   <<<<"\\uD806", "\\uDCB5">>, <<"\\uD806", "\\uDCD5">>>>,
   <<<<"\\uD806", "\\uDCB6">>, <<"\\uD806", "\\uDCD6">>>>,
   <<<<"\\uD806", "\\uDCB7">>, <<"\\uD806", "\\uDCD7">>>>,
   <<<<"\\uD806", "\\uDCB8">>, <<"\\uD806", "\\uDCD8">>>>,
   <<<<"\\uD806", "\\uDCB9">>, <<"\\uD806", "\\uDCD9">>>>,
   <<<<"\\uD806", "\\uDCBA">>, <<"\\uD806", "\\uDCDA">>>>,
   <<<<"\\uD806", "\\uDCBB">>, <<"\\uD806", "\\uDCDB">>>>,
   <<<<"\\uD806", "\\uDCBC">>, <<"\\uD806", "\\uDCDC">>>>,
   <<<<"\\uD806", "\\uDCBD">>, <<"\\uD806", "\\uDCDD">>>>,
   <<<<"\\uD806", "\\uDCBE">>, <<"\\uD806", "\\uDCDE">>>>,
   <<<<"\\uD806", "\\uDCBF">>, <<"\\uD806", "\\uDCDF">>>>,
   <<<<"\\uD81B", "\\uDE40">>, <<"\\uD81B", "\\uDE60">>>>,
   <<<<"\\uD81B", "\\uDE41">>, <<"\\uD81B", "\\uDE61">>>>,
   <<<<"\\uD81B", "\\uDE42">>, <<"\\uD81B", "\\uDE62">>>>,
   <<<<"\\uD81B", "\\uDE43">>, <<"\\uD81B", "\\uDE63">>>>,
   <<<<"\\uD81B", "\\uDE44">>, <<"\\uD81B", "\\uDE64">>>>,
   <<<<"\\uD81B", "\\uDE45">>, <<"\\uD81B", "\\uDE65">>>>,
   <<<<"\\uD81B", "\\uDE46">>, <<"\\uD81B", "\\uDE66">>>>,
   <<<<"\\uD81B", "\\uDE47">>, <<"\\uD81B", "\\uDE67">>>>,
   <<<<"\\uD81B", "\\uDE48">>, <<"\\uD81B", "\\uDE68">>>>,
   <<<<"\\uD81B", "\\uDE49">>, <<"\\uD81B", "\\uDE69">>>>,
   <<<<"\\uD81B", "\\uDE4A">>, <<"\\uD81B", "\\uDE6A">>>>,
   <<<<"\\uD81B", "\\uDE4B">>, <<"\\uD81B", "\\uDE6B">>>>,
   <<<<"\\uD81B", "\\uDE4C">>, <<"\\uD81B", "\\uDE6C">>>>,
   <<<<"\\uD81B", "\\uDE4D">>, <<"\\uD81B", "\\uDE6D">>>>,
   <<<<"\\uD81B", "\\uDE4E">>, <<"\\uD81B", "\\uDE6E">>>>,
   <<<<"\\uD81B", "\\uDE4F">>, <<"\\uD81B", "\\uDE6F">>>>,
   <<<<"\\uD81B", "\\uDE50">>, <<"\\uD81B", "\\uDE70">>>>,
   <<<<"\\uD81B", "\\uDE51">>, <<"\\uD81B", "\\uDE71">>>>,
   <<<<"\\uD81B", "\\uDE52">>, <<"\\uD81B", "\\uDE72">>>>,
   <<<<"\\uD81B", "\\uDE53">>, <<"\\uD81B", "\\uDE73">>>>,
   <<<<"\\uD81B", "\\uDE54">>, <<"\\uD81B", "\\uDE74">>>>,
   <<<<"\\uD81B", "\\uDE55">>, <<"\\uD81B", "\\uDE75">>>>,
   <<<<"\\uD81B", "\\uDE56">>, <<"\\uD81B", "\\uDE76">>>>,
   <<<<"\\uD81B", "\\uDE57">>, <<"\\uD81B", "\\uDE77">>>>,
   <<<<"\\uD81B", "\\uDE58">>, <<"\\uD81B", "\\uDE78">>>>,
   <<<<"\\uD81B", "\\uDE59">>, <<"\\uD81B", "\\uDE79">>>>,
   <<<<"\\uD81B", "\\uDE5A">>, <<"\\uD81B", "\\uDE7A">>>>,
   <<<<"\\uD81B", "\\uDE5B">>, <<"\\uD81B", "\\uDE7B">>>>,
   <<<<"\\uD81B", "\\uDE5C">>, <<"\\uD81B", "\\uDE7C">>>>,
   <<<<"\\uD81B", "\\uDE5D">>, <<"\\uD81B", "\\uDE7D">>>>,
   <<<<"\\uD81B", "\\uDE5E">>, <<"\\uD81B", "\\uDE7E">>>>,
   <<<<"\\uD81B", "\\uDE5F">>, <<"\\uD81B", "\\uDE7F">>>>,
   <<<<"\\uD81B", "\\uDEA0">>, <<"\\uD81B", "\\uDEBB">>>>,
   <<<<"\\uD81B", "\\uDEA1">>, <<"\\uD81B", "\\uDEBC">>>>,
   <<<<"\\uD81B", "\\uDEA2">>, <<"\\uD81B", "\\uDEBD">>>>,
   <<<<"\\uD81B", "\\uDEA3">>, <<"\\uD81B", "\\uDEBE">>>>,
   <<<<"\\uD81B", "\\uDEA4">>, <<"\\uD81B", "\\uDEBF">>>>,
   <<<<"\\uD81B", "\\uDEA5">>, <<"\\uD81B", "\\uDEC0">>>>,
   <<<<"\\uD81B", "\\uDEA6">>, <<"\\uD81B", "\\uDEC1">>>>,
   <<<<"\\uD81B", "\\uDEA7">>, <<"\\uD81B", "\\uDEC2">>>>,
   <<<<"\\uD81B", "\\uDEA8">>, <<"\\uD81B", "\\uDEC3">>>>,
   <<<<"\\uD81B", "\\uDEA9">>, <<"\\uD81B", "\\uDEC4">>>>,
   <<<<"\\uD81B", "\\uDEAA">>, <<"\\uD81B", "\\uDEC5">>>>,
   <<<<"\\uD81B", "\\uDEAB">>, <<"\\uD81B", "\\uDEC6">>>>,
   <<<<"\\uD81B", "\\uDEAC">>, <<"\\uD81B", "\\uDEC7">>>>,
   <<<<"\\uD81B", "\\uDEAD">>, <<"\\uD81B", "\\uDEC8">>>>,
   <<<<"\\uD81B", "\\uDEAE">>, <<"\\uD81B", "\\uDEC9">>>>,
   <<<<"\\uD81B", "\\uDEAF">>, <<"\\uD81B", "\\uDECA">>>>,
   <<<<"\\uD81B", "\\uDEB0">>, <<"\\uD81B", "\\uDECB">>>>,
   <<<<"\\uD81B", "\\uDEB1">>, <<"\\uD81B", "\\uDECC">>>>,
   <<<<"\\uD81B", "\\uDEB2">>, <<"\\uD81B", "\\uDECD">>>>,
   <<<<"\\uD81B", "\\uDEB3">>, <<"\\uD81B", "\\uDECE">>>>,
   <<<<"\\uD81B", "\\uDEB4">>, <<"\\uD81B", "\\uDECF">>>>,
   <<<<"\\uD81B", "\\uDEB5">>, <<"\\uD81B", "\\uDED0">>>>,
   <<<<"\\uD81B", "\\uDEB6">>, <<"\\uD81B", "\\uDED1">>>>,
   <<<<"\\uD81B", "\\uDEB7">>, <<"\\uD81B", "\\uDED2">>>>,
   <<<<"\\uD81B", "\\uDEB8">>, <<"\\uD81B", "\\uDED3">>>>,
   <<<<"\\uD83A", "\\uDD00">>, <<"\\uD83A", "\\uDD22">>>>,
   <<<<"\\uD83A", "\\uDD01">>, <<"\\uD83A", "\\uDD23">>>>,
   <<<<"\\uD83A", "\\uDD02">>, <<"\\uD83A", "\\uDD24">>>>,
   <<<<"\\uD83A", "\\uDD03">>, <<"\\uD83A", "\\uDD25">>>>,
   <<<<"\\uD83A", "\\uDD04">>, <<"\\uD83A", "\\uDD26">>>>,
   <<<<"\\uD83A", "\\uDD05">>, <<"\\uD83A", "\\uDD27">>>>,
   <<<<"\\uD83A", "\\uDD06">>, <<"\\uD83A", "\\uDD28">>>>,
   <<<<"\\uD83A", "\\uDD07">>, <<"\\uD83A", "\\uDD29">>>>,
   <<<<"\\uD83A", "\\uDD08">>, <<"\\uD83A", "\\uDD2A">>>>,
   <<<<"\\uD83A", "\\uDD09">>, <<"\\uD83A", "\\uDD2B">>>>,
   <<<<"\\uD83A", "\\uDD0A">>, <<"\\uD83A", "\\uDD2C">>>>,
   <<<<"\\uD83A", "\\uDD0B">>, <<"\\uD83A", "\\uDD2D">>>>,
   <<<<"\\uD83A", "\\uDD0C">>, <<"\\uD83A", "\\uDD2E">>>>,
   <<<<"\\uD83A", "\\uDD0D">>, <<"\\uD83A", "\\uDD2F">>>>,
   <<<<"\\uD83A", "\\uDD0E">>, <<"\\uD83A", "\\uDD30">>>>,
   <<<<"\\uD83A", "\\uDD0F">>, <<"\\uD83A", "\\uDD31">>>>,
   <<<<"\\uD83A", "\\uDD10">>, <<"\\uD83A", "\\uDD32">>>>,
   <<<<"\\uD83A", "\\uDD11">>, <<"\\uD83A", "\\uDD33">>>>,
   <<<<"\\uD83A", "\\uDD12">>, <<"\\uD83A", "\\uDD34">>>>,
   <<<<"\\uD83A", "\\uDD13">>, <<"\\uD83A", "\\uDD35">>>>,
   <<<<"\\uD83A", "\\uDD14">>, <<"\\uD83A", "\\uDD36">>>>,
   <<<<"\\uD83A", "\\uDD15">>, <<"\\uD83A", "\\uDD37">>>>,
   <<<<"\\uD83A", "\\uDD16">>, <<"\\uD83A", "\\uDD38">>>>,
   <<<<"\\uD83A", "\\uDD17">>, <<"\\uD83A", "\\uDD39">>>>,
   <<<<"\\uD83A", "\\uDD18">>, <<"\\uD83A", "\\uDD3A">>>>,
   <<<<"\\uD83A", "\\uDD19">>, <<"\\uD83A", "\\uDD3B">>>>,
   <<<<"\\uD83A", "\\uDD1A">>, <<"\\uD83A", "\\uDD3C">>>>,
   <<<<"\\uD83A", "\\uDD1B">>, <<"\\uD83A", "\\uDD3D">>>>,
   <<<<"\\uD83A", "\\uDD1C">>, <<"\\uD83A", "\\uDD3E">>>>,
   <<<<"\\uD83A", "\\uDD1D">>, <<"\\uD83A", "\\uDD3F">>>>,
   <<<<"\\uD83A", "\\uDD1E">>, <<"\\uD83A", "\\uDD40">>>>,
   <<<<"\\uD83A", "\\uDD1F">>, <<"\\uD83A", "\\uDD41">>>>,
   <<<<"\\uD83A", "\\uDD20">>, <<"\\uD83A", "\\uDD42">>>>,
   <<<<"\\uD83A", "\\uDD21">>, <<"\\uD83A", "\\uDD43">>>>}

\* The cased characters (Lowercase, Uppercase or Lt) that are in no mapping
OtherCased ==
  {"ª", "µ", "º", "\\u0130", "\\u0131", "\\u0138", "\\u0149", "\\u017F", "ƍ",
   "ƪ", "ƫ", "ƺ", "ƾ", "ǰ", "\\u0221", "\\u0234", "\\u0235", "\\u0236",
   "\\u0237", "\\u0238", "\\u0239", "\\u0255", "\\u0258", "\\u025A",
   "\\u025D", "\\u025E", "\\u025F", "\\u0262", "\\u0267", "\\u026D",
   "\\u026E", "\\u0270", "\\u0273", "\\u0274", "\\u0276", "\\u0277",
   "\\u0278", "\\u0279", "\\u027A", "\\u027B", "\\u027C", "\\u027E",
   "\\u027F", "ʁ", "ʄ", "ʅ", "ʆ", "ʍ", "ʎ", "ʏ", "ʐ", "ʑ", "ʓ", "ʖ", "ʗ", "ʘ",
   "ʙ", "ʚ", "ʛ", "ʜ", "ʟ", "ʠ", "ʡ", "ʢ", "ʣ", "ʤ", "ʥ", "ʦ", "ʧ", "ʨ", "ʩ",
   "ʪ", "ʫ", "ʬ", "ʭ", "ʮ", "ʯ", "ʰ", "ʱ", "ʲ", "ʳ", "ʴ", "ʵ", "ʶ", "ʷ", "ʸ",
   "ˀ", "ˁ", "ˠ", "ˡ", "ˢ", "ˣ", "ˤ", "\\u0345", "\\u037A", "ΐ", "ΰ", "ς",
   "ϐ", "ϑ", "ϒ", "ϓ", "ϔ", "ϕ", "ϖ", "ϰ", "ϱ", "ϵ", "ϼ", "\\u0560", "և", "ֈ",
   "ჼ", "ᲀ", "ᲁ", "ᲂ", "ᲃ", "ᲄ", "ᲅ", "ᲆ", "ᲇ", "ᲈ", "\\u1D00", "\\u1D01",
   "\\u1D02", "\\u1D03", "\\u1D04", "\\u1D05", "\\u1D06", "\\u1D07",
   "\\u1D08", "\\u1D09", "\\u1D0A", "\\u1D0B", "\\u1D0C", "\\u1D0D",
   "\\u1D0E", "\\u1D0F", "\\u1D10", "\\u1D11", "\\u1D12", "\\u1D13",
   "\\u1D14", "\\u1D15", "\\u1D16", "\\u1D17", "\\u1D18", "\\u1D19",
   "\\u1D1A", "\\u1D1B", "\\u1D1C", "\\u1D1D", "\\u1D1E", "\\u1D1F",
   "\\u1D20", "\\u1D21", "\\u1D22", "\\u1D23", "\\u1D24", "\\u1D25",
   "\\u1D26", "\\u1D27", "\\u1D28", "\\u1D29", "\\u1D2A", "\\u1D2B",
   "\\u1D2C", "\\u1D2D", "\\u1D2E", "\\u1D2F", "\\u1D30", "\\u1D31",
   "\\u1D32", "\\u1D33", "\\u1D34", "\\u1D35", "\\u1D36", "\\u1D37",
   "\\u1D38", "\\u1D39", "\\u1D3A", "\\u1D3B", "\\u1D3C", "\\u1D3D",
   "\\u1D3E", "\\u1D3F", "\\u1D40", "\\u1D41", "\\u1D42", "\\u1D43",
   "\\u1D44", "\\u1D45", "\\u1D46", "\\u1D47", "\\u1D48", "\\u1D49",
   "\\u1D4A", "\\u1D4B", "\\u1D4C", "\\u1D4D", "\\u1D4E", "\\u1D4F",
   "\\u1D50", "\\u1D51", "\\u1D52", "\\u1D53", "\\u1D54", "\\u1D55",
   "\\u1D56", "\\u1D57", "\\u1D58", "\\u1D59", "\\u1D5A", "\\u1D5B",
   "\\u1D5C", "\\u1D5D", "\\u1D5E", "\\u1D5F", "\\u1D60", "\\u1D61",
   "\\u1D62", "\\u1D63", "\\u1D64", "\\u1D65", "\\u1D66", "\\u1D67",
   "\\u1D68", "\\u1D69", "\\u1D6A", "\\u1D6B", "\\u1D6C", "\\u1D6D",
   "\\u1D6E", "\\u1D6F", "\\u1D70", "\\u1D71", "\\u1D72", "\\u1D73",
   "\\u1D74", "\\u1D75", "\\u1D76", "\\u1D77", "\\u1D78", "\\u1D7A",
   "\\u1D7B", "\\u1D7C", "\\u1D7E", "\\u1D7F", "ᶀ", "ᶁ", "ᶂ", "ᶃ", "ᶄ", "ᶅ",
   "ᶆ", "ᶇ", "ᶈ", "ᶉ", "ᶊ", "ᶋ", "ᶌ", "ᶍ", "ᶏ", "ᶐ", "ᶑ", "ᶒ", "ᶓ", "ᶔ", "ᶕ",
   "ᶖ", "ᶗ", "ᶘ", "ᶙ", "ᶚ", "ᶛ", "ᶜ", "ᶝ", "ᶞ", "ᶟ", "ᶠ", "ᶡ", "ᶢ", "ᶣ", "ᶤ",
   "ᶥ", "ᶦ", "ᶧ", "ᶨ", "ᶩ", "ᶪ", "ᶫ", "ᶬ", "ᶭ", "ᶮ", "ᶯ", "ᶰ", "ᶱ", "ᶲ", "ᶳ",
   "ᶴ", "ᶵ", "ᶶ", "ᶷ", "ᶸ", "ᶹ", "ᶺ", "ᶻ", "ᶼ", "ᶽ", "ᶾ", "ᶿ", "ẖ", "ẗ", "ẘ",
   "ẙ", "ẚ", "ẛ", "ẜ", "ẝ", "ẟ", "\\u1F50", "\\u1F52", "\\u1F54", "\\u1F56",
   "ᾲ", "ᾴ", "ᾶ", "ᾷ", "ι", "ῂ", "ῄ", "ῆ", "ῇ", "ῒ", "ΐ", "ῖ", "ῗ", "ῢ", "ΰ",
   "ῤ", "ῦ", "ῧ", "ῲ", "ῴ", "ῶ", "ῷ", "\\u2071", "\\u207F", "ₐ", "ₑ", "ₒ",
   "ₓ", "ₔ", "ₕ", "ₖ", "ₗ", "ₘ", "ₙ", "ₚ", "ₛ", "ₜ", "\\u2102", "\\u2107",
   "\\u210A", "\\u210B", "\\u210C", "\\u210D", "\\u210E", "\\u210F",
   "\\u2110", "\\u2111", "\\u2112", "\\u2113", "\\u2115", "\\u2119",
   "\\u211A", "\\u211B", "\\u211C", "\\u211D", "\\u2124", "\\u2128",
   "\\u212C", "\\u212D", "\\u212F", "\\u2130", "\\u2131", "\\u2133",
   "\\u2134", "\\u2139", "\\u213C", "\\u213D", "\\u213E", "\\u213F",
   "\\u2145", "\\u2146", "\\u2147", "\\u2148", "\\u2149", "\\u2C71",
   "\\u2C74", "\\u2C77", "\\u2C78", "\\u2C79", "\\u2C7A", "\\u2C7B",
   "\\u2C7C", "\\u2C7D", "ⳤ", "ꚜ", "ꚝ", "\\uA730", "\\uA731", "\\uA770",
   "\\uA771", "\\uA772", "\\uA773", "\\uA774", "\\uA775", "\\uA776",
   "\\uA777", "\\uA778", "ꞎ", "ꞕ", "ꞯ", "꟱", "ꟲ", "ꟳ", "ꟴ", "ꟸ", "ꟹ", "ꟺ",
   "\\uAB30", "\\uAB31", "\\uAB32", "\\uAB33", "\\uAB34", "\\uAB35",
   "\\uAB36", "\\uAB37", "\\uAB38", "\\uAB39", "\\uAB3A", "\\uAB3B",
   "\\uAB3C", "\\uAB3D", "\\uAB3E", "\\uAB3F", "\\uAB40", "\\uAB41",
   "\\uAB42", "\\uAB43", "\\uAB44", "\\uAB45", "\\uAB46", "\\uAB47",
   "\\uAB48", "\\uAB49", "\\uAB4A", "\\uAB4B", "\\uAB4C", "\\uAB4D",
   "\\uAB4E", "\\uAB4F", "\\uAB50", "\\uAB51", "\\uAB52", "\\uAB54",
   "\\uAB55", "\\uAB56", "\\uAB57", "\\uAB58", "\\uAB59", "\\uAB5A",
   "\\uAB5C", "\\uAB5D", "\\uAB5E", "\\uAB5F", "\\uAB60", "\\uAB61",
   "\\uAB62", "\\uAB63", "\\uAB64", "\\uAB65", "\\uAB66", "\\uAB67",
   "\\uAB68", "\\uAB69", "\\uFB00", "\\uFB01", "\\uFB02", "\\uFB03",
   "\\uFB04", "\\uFB05", "\\uFB06", "\\uFB13", "\\uFB14", "\\uFB15",
   "\\uFB16", "\\uFB17"}

\* The same beyond U+FFFF
AstralOtherCased ==
  {<<"\\uD801", "\\uDF80">>, <<"\\uD801", "\\uDF83">>,
   <<"\\uD801", "\\uDF84">>, <<"\\uD801", "\\uDF85">>,
   <<"\\uD801", "\\uDF87">>, <<"\\uD801", "\\uDF88">>,
   <<"\\uD801", "\\uDF89">>, <<"\\uD801", "\\uDF8A">>,
   <<"\\uD801", "\\uDF8B">>, <<"\\uD801", "\\uDF8C">>,
   <<"\\uD801", "\\uDF8D">>, <<"\\uD801", "\\uDF8E">>,
   <<"\\uD801", "\\uDF8F">>, <<"\\uD801", "\\uDF90">>,
   <<"\\uD801", "\\uDF91">>, <<"\\uD801", "\\uDF92">>,
   <<"\\uD801", "\\uDF93">>, <<"\\uD801", "\\uDF94">>,
   <<"\\uD801", "\\uDF95">>, <<"\\uD801", "\\uDF96">>,
   <<"\\uD801", "\\uDF97">>, <<"\\uD801", "\\uDF98">>,
   <<"\\uD801", "\\uDF99">>, <<"\\uD801", "\\uDF9A">>,
   <<"\\uD801", "\\uDF9B">>, <<"\\uD801", "\\uDF9C">>,
   <<"\\uD801", "\\uDF9D">>, <<"\\uD801", "\\uDF9E">>,
   <<"\\uD801", "\\uDF9F">>, <<"\\uD801", "\\uDFA0">>,
   <<"\\uD801", "\\uDFA1">>, <<"\\uD801", "\\uDFA2">>,
   <<"\\uD801", "\\uDFA3">>, <<"\\uD801", "\\uDFA4">>,
   <<"\\uD801", "\\uDFA5">>, <<"\\uD801", "\\uDFA6">>,
   <<"\\uD801", "\\uDFA7">>, <<"\\uD801", "\\uDFA8">>,
   <<"\\uD801", "\\uDFA9">>, <<"\\uD801", "\\uDFAA">>,
   <<"\\uD801", "\\uDFAB">>, <<"\\uD801", "\\uDFAC">>,
   <<"\\uD801", "\\uDFAD">>, <<"\\uD801", "\\uDFAE">>,
   <<"\\uD801", "\\uDFAF">>, <<"\\uD801", "\\uDFB0">>,
   <<"\\uD801", "\\uDFB2">>, <<"\\uD801", "\\uDFB3">>,
   <<"\\uD801", "\\uDFB4">>, <<"\\uD801", "\\uDFB5">>,
   <<"\\uD801", "\\uDFB6">>, <<"\\uD801", "\\uDFB7">>,
   <<"\\uD801", "\\uDFB8">>, <<"\\uD801", "\\uDFB9">>,
   <<"\\uD801", "\\uDFBA">>, <<"\\uD835", "\\uDC00">>,
   <<"\\uD835", "\\uDC01">>, <<"\\uD835", "\\uDC02">>,
   <<"\\uD835", "\\uDC03">>, <<"\\uD835", "\\uDC04">>,
   <<"\\uD835", "\\uDC05">>, <<"\\uD835", "\\uDC06">>,
   <<"\\uD835", "\\uDC07">>, <<"\\uD835", "\\uDC08">>,
   <<"\\uD835", "\\uDC09">>, <<"\\uD835", "\\uDC0A">>,
   <<"\\uD835", "\\uDC0B">>, <<"\\uD835", "\\uDC0C">>,
   <<"\\uD835", "\\uDC0D">>, <<"\\uD835", "\\uDC0E">>,
   <<"\\uD835", "\\uDC0F">>, <<"\\uD835", "\\uDC10">>,
   <<"\\uD835", "\\uDC11">>, <<"\\uD835", "\\uDC12">>,
   <<"\\uD835", "\\uDC13">>, <<"\\uD835", "\\uDC14">>,
   <<"\\uD835", "\\uDC15">>, <<"\\uD835", "\\uDC16">>,
   <<"\\uD835", "\\uDC17">>, <<"\\uD835", "\\uDC18">>,
   <<"\\uD835", "\\uDC19">>, <<"\\uD835", "\\uDC1A">>,
   <<"\\uD835", "\\uDC1B">>, <<"\\uD835", "\\uDC1C">>,
   <<"\\uD835", "\\uDC1D">>, <<"\\uD835", "\\uDC1E">>,
   <<"\\uD835", "\\uDC1F">>, <<"\\uD835", "\\uDC20">>,
   <<"\\uD835", "\\uDC21">>, <<"\\uD835", "\\uDC22">>,
   <<"\\uD835", "\\uDC23">>, <<"\\uD835", "\\uDC24">>,
   <<"\\uD835", "\\uDC25">>, <<"\\uD835", "\\uDC26">>,
   <<"\\uD835", "\\uDC27">>, <<"\\uD835", "\\uDC28">>,
   <<"\\uD835", "\\uDC29">>, <<"\\uD835", "\\uDC2A">>,
   <<"\\uD835", "\\uDC2B">>, <<"\\uD835", "\\uDC2C">>,
   <<"\\uD835", "\\uDC2D">>, <<"\\uD835", "\\uDC2E">>,
   <<"\\uD835", "\\uDC2F">>, <<"\\uD835", "\\uDC30">>,
   <<"\\uD835", "\\uDC31">>, <<"\\uD835", "\\uDC32">>,
   <<"\\uD835", "\\uDC33">>, <<"\\uD835", "\\uDC34">>,
   <<"\\uD835", "\\uDC35">>, <<"\\uD835", "\\uDC36">>,
   <<"\\uD835", "\\uDC37">>, <<"\\uD835", "\\uDC38">>,
   <<"\\uD835", "\\uDC39">>, <<"\\uD835", "\\uDC3A">>,
   <<"\\uD835", "\\uDC3B">>, <<"\\uD835", "\\uDC3C">>,
   <<"\\uD835", "\\uDC3D">>, <<"\\uD835", "\\uDC3E">>,
   <<"\\uD835", "\\uDC3F">>, <<"\\uD835", "\\uDC40">>,
   <<"\\uD835", "\\uDC41">>, <<"\\uD835", "\\uDC42">>,
   <<"\\uD835", "\\uDC43">>, <<"\\uD835", "\\uDC44">>,
   <<"\\uD835", "\\uDC45">>, <<"\\uD835", "\\uDC46">>,
   <<"\\uD835", "\\uDC47">>, <<"\\uD835", "\\uDC48">>,
   <<"\\uD835", "\\uDC49">>, <<"\\uD835", "\\uDC4A">>,
   <<"\\uD835", "\\uDC4B">>, <<"\\uD835", "\\uDC4C">>,
   <<"\\uD835", "\\uDC4D">>, <<"\\uD835", "\\uDC4E">>,
   <<"\\uD835", "\\uDC4F">>, <<"\\uD835", "\\uDC50">>,
   <<"\\uD835", "\\uDC51">>, <<"\\uD835", "\\uDC52">>,
   <<"\\uD835", "\\uDC53">>, <<"\\uD835", "\\uDC54">>,
   <<"\\uD835", "\\uDC56">>, <<"\\uD835", "\\uDC57">>,
   <<"\\uD835", "\\uDC58">>, <<"\\uD835", "\\uDC59">>,
   <<"\\uD835", "\\uDC5A">>, <<"\\uD835", "\\uDC5B">>,
   <<"\\uD835", "\\uDC5C">>, <<"\\uD835", "\\uDC5D">>,
   <<"\\uD835", "\\uDC5E">>, <<"\\uD835", "\\uDC5F">>,
   <<"\\uD835", "\\uDC60">>, <<"\\uD835", "\\uDC61">>,
   <<"\\uD835", "\\uDC62">>, <<"\\uD835", "\\uDC63">>,
   <<"\\uD835", "\\uDC64">>, <<"\\uD835", "\\uDC65">>,
   <<"\\uD835", "\\uDC66">>, <<"\\uD835", "\\uDC67">>,
   <<"\\uD835", "\\uDC68">>, <<"\\uD835", "\\uDC69">>,
   <<"\\uD835", "\\uDC6A">>, <<"\\uD835", "\\uDC6B">>,
   <<"\\uD835", "\\uDC6C">>, <<"\\uD835", "\\uDC6D">>,
   <<"\\uD835", "\\uDC6E">>, <<"\\uD835", "\\uDC6F">>,
   <<"\\uD835", "\\uDC70">>, <<"\\uD835", "\\uDC71">>,
   <<"\\uD835", "\\uDC72">>, <<"\\uD835", "\\uDC73">>,
   <<"\\uD835", "\\uDC74">>, <<"\\uD835", "\\uDC75">>,
   <<"\\uD835", "\\uDC76">>, <<"\\uD835", "\\uDC77">>,
   <<"\\uD835", "\\uDC78">>, <<"\\uD835", "\\uDC79">>,
   <<"\\uD835", "\\uDC7A">>, <<"\\uD835", "\\uDC7B">>,
   <<"\\uD835", "\\uDC7C">>, <<"\\uD835", "\\uDC7D">>,
   <<"\\uD835", "\\uDC7E">>, <<"\\uD835", "\\uDC7F">>,
   <<"\\uD835", "\\uDC80">>, <<"\\uD835", "\\uDC81">>,
   <<"\\uD835", "\\uDC82">>, <<"\\uD835", "\\uDC83">>,
   <<"\\uD835", "\\uDC84">>, <<"\\uD835", "\\uDC85">>,
   <<"\\uD835", "\\uDC86">>, <<"\\uD835", "\\uDC87">>,
   <<"\\uD835", "\\uDC88">>, <<"\\uD835", "\\uDC89">>,
   <<"\\uD835", "\\uDC8A">>, <<"\\uD835", "\\uDC8B">>,
   <<"\\uD835", "\\uDC8C">>, <<"\\uD835", "\\uDC8D">>,
   <<"\\uD835", "\\uDC8E">>, <<"\\uD835", "\\uDC8F">>,
   <<"\\uD835", "\\uDC90">>, <<"\\uD835", "\\uDC91">>,
   <<"\\uD835", "\\uDC92">>, <<"\\uD835", "\\uDC93">>,
   <<"\\uD835", "\\uDC94">>, <<"\\uD835", "\\uDC95">>,
   <<"\\uD835", "\\uDC96">>, <<"\\uD835", "\\uDC97">>,
   <<"\\uD835", "\\uDC98">>, <<"\\uD835", "\\uDC99">>,
   <<"\\uD835", "\\uDC9A">>, <<"\\uD835", "\\uDC9B">>,
   <<"\\uD835", "\\uDC9C">>, <<"\\uD835", "\\uDC9E">>,
   <<"\\uD835", "\\uDC9F">>, <<"\\uD835", "\\uDCA2">>,
   <<"\\uD835", "\\uDCA5">>, <<"\\uD835", "\\uDCA6">>,
   <<"\\uD835", "\\uDCA9">>, <<"\\uD835", "\\uDCAA">>,
   <<"\\uD835", "\\uDCAB">>, <<"\\uD835", "\\uDCAC">>,
   <<"\\uD835", "\\uDCAE">>, <<"\\uD835", "\\uDCAF">>,
   <<"\\uD835", "\\uDCB0">>, <<"\\uD835", "\\uDCB1">>,
   <<"\\uD835", "\\uDCB2">>, <<"\\uD835", "\\uDCB3">>,
   <<"\\uD835", "\\uDCB4">>, <<"\\uD835", "\\uDCB5">>,
   <<"\\uD835", "\\uDCB6">>, <<"\\uD835", "\\uDCB7">>,
   <<"\\uD835", "\\uDCB8">>, <<"\\uD835", "\\uDCB9">>,
   <<"\\uD835", "\\uDCBB">>, <<"\\uD835", "\\uDCBD">>,
   <<"\\uD835", "\\uDCBE">>, <<"\\uD835", "\\uDCBF">>,
   <<"\\uD835", "\\uDCC0">>, <<"\\uD835", "\\uDCC1">>,
   <<"\\uD835", "\\uDCC2">>, <<"\\uD835", "\\uDCC3">>,
   <<"\\uD835", "\\uDCC5">>, <<"\\uD835", "\\uDCC6">>,
   <<"\\uD835", "\\uDCC7">>, <<"\\uD835", "\\uDCC8">>,
   <<"\\uD835", "\\uDCC9">>, <<"\\uD835", "\\uDCCA">>,
   <<"\\uD835", "\\uDCCB">>, <<"\\uD835", "\\uDCCC">>,
   <<"\\uD835", "\\uDCCD">>, <<"\\uD835", "\\uDCCE">>,
   <<"\\uD835", "\\uDCCF">>, <<"\\uD835", "\\uDCD0">>,
   <<"\\uD835", "\\uDCD1">>, <<"\\uD835", "\\uDCD2">>,
   <<"\\uD835", "\\uDCD3">>, <<"\\uD835", "\\uDCD4">>,
   <<"\\uD835", "\\uDCD5">>, <<"\\uD835", "\\uDCD6">>,
   <<"\\uD835", "\\uDCD7">>, <<"\\uD835", "\\uDCD8">>,
   <<"\\uD835", "\\uDCD9">>, <<"\\uD835", "\\uDCDA">>,
   <<"\\uD835", "\\uDCDB">>, <<"\\uD835", "\\uDCDC">>,
   <<"\\uD835", "\\uDCDD">>, <<"\\uD835", "\\uDCDE">>,
   <<"\\uD835", "\\uDCDF">>, <<"\\uD835", "\\uDCE0">>,
   <<"\\uD835", "\\uDCE1">>, <<"\\uD835", "\\uDCE2">>,
   <<"\\uD835", "\\uDCE3">>, <<"\\uD835", "\\uDCE4">>,
   <<"\\uD835", "\\uDCE5">>, <<"\\uD835", "\\uDCE6">>,
   <<"\\uD835", "\\uDCE7">>, <<"\\uD835", "\\uDCE8">>,
   <<"\\uD835", "\\uDCE9">>, <<"\\uD835", "\\uDCEA">>,
   <<"\\uD835", "\\uDCEB">>, <<"\\uD835", "\\uDCEC">>,
   <<"\\uD835", "\\uDCED">>, <<"\\uD835", "\\uDCEE">>,
   <<"\\uD835", "\\uDCEF">>, <<"\\uD835", "\\uDCF0">>,
   <<"\\uD835", "\\uDCF1">>, <<"\\uD835", "\\uDCF2">>,
   <<"\\uD835", "\\uDCF3">>, <<"\\uD835", "\\uDCF4">>,
   <<"\\uD835", "\\uDCF5">>, <<"\\uD835", "\\uDCF6">>,
   <<"\\uD835", "\\uDCF7">>, <<"\\uD835", "\\uDCF8">>,
   <<"\\uD835", "\\uDCF9">>, <<"\\uD835", "\\uDCFA">>,
   <<"\\uD835", "\\uDCFB">>, <<"\\uD835", "\\uDCFC">>,
   <<"\\uD835", "\\uDCFD">>, <<"\\uD835", "\\uDCFE">>,
   <<"\\uD835", "\\uDCFF">>, <<"\\uD835", "\\uDD00">>,
   <<"\\uD835", "\\uDD01">>, <<"\\uD835", "\\uDD02">>,
   <<"\\uD835", "\\uDD03">>, <<"\\uD835", "\\uDD04">>,
   <<"\\uD835", "\\uDD05">>, <<"\\uD835", "\\uDD07">>,
   <<"\\uD835", "\\uDD08">>, <<"\\uD835", "\\uDD09">>,
   <<"\\uD835", "\\uDD0A">>, <<"\\uD835", "\\uDD0D">>,
   <<"\\uD835", "\\uDD0E">>, <<"\\uD835", "\\uDD0F">>,
   <<"\\uD835", "\\uDD10">>, <<"\\uD835", "\\uDD11">>,
   <<"\\uD835", "\\uDD12">>, <<"\\uD835", "\\uDD13">>,
   <<"\\uD835", "\\uDD14">>, <<"\\uD835", "\\uDD16">>,
   <<"\\uD835", "\\uDD17">>, <<"\\uD835", "\\uDD18">>,
   <<"\\uD835", "\\uDD19">>, <<"\\uD835", "\\uDD1A">>,
   <<"\\uD835", "\\uDD1B">>, <<"\\uD835", "\\uDD1C">>,
   <<"\\uD835", "\\uDD1E">>, <<"\\uD835", "\\uDD1F">>,
   <<"\\uD835", "\\uDD20">>, <<"\\uD835", "\\uDD21">>,
   <<"\\uD835", "\\uDD22">>, <<"\\uD835", "\\uDD23">>,
   <<"\\uD835", "\\uDD24">>, <<"\\uD835", "\\uDD25">>,
   <<"\\uD835", "\\uDD26">>, <<"\\uD835", "\\uDD27">>,
   <<"\\uD835", "\\uDD28">>, <<"\\uD835", "\\uDD29">>,
   <<"\\uD835", "\\uDD2A">>, <<"\\uD835", "\\uDD2B">>,
   <<"\\uD835", "\\uDD2C">>, <<"\\uD835", "\\uDD2D">>,
   <<"\\uD835", "\\uDD2E">>, <<"\\uD835", "\\uDD2F">>,
   <<"\\uD835", "\\uDD30">>, <<"\\uD835", "\\uDD31">>,
   <<"\\uD835", "\\uDD32">>, <<"\\uD835", "\\uDD33">>,
   <<"\\uD835", "\\uDD34">>, <<"\\uD835", "\\uDD35">>,
   <<"\\uD835", "\\uDD36">>, <<"\\uD835", "\\uDD37">>,
   <<"\\uD835", "\\uDD38">>, <<"\\uD835", "\\uDD39">>,
   <<"\\uD835", "\\uDD3B">>, <<"\\uD835", "\\uDD3C">>,
   <<"\\uD835", "\\uDD3D">>, <<"\\uD835", "\\uDD3E">>,
   <<"\\uD835", "\\uDD40">>, <<"\\uD835", "\\uDD41">>,
   <<"\\uD835", "\\uDD42">>, <<"\\uD835", "\\uDD43">>,
   <<"\\uD835", "\\uDD44">>, <<"\\uD835", "\\uDD46">>,
   <<"\\uD835", "\\uDD4A">>, <<"\\uD835", "\\uDD4B">>,
   <<"\\uD835", "\\uDD4C">>, <<"\\uD835", "\\uDD4D">>,
   <<"\\uD835", "\\uDD4E">>, <<"\\uD835", "\\uDD4F">>,
   <<"\\uD835", "\\uDD50">>, <<"\\uD835", "\\uDD52">>,
   <<"\\uD835", "\\uDD53">>, <<"\\uD835", "\\uDD54">>,
   <<"\\uD835", "\\uDD55">>, <<"\\uD835", "\\uDD56">>,
   <<"\\uD835", "\\uDD57">>, <<"\\uD835", "\\uDD58">>,
   <<"\\uD835", "\\uDD59">>, <<"\\uD835", "\\uDD5A">>,
   <<"\\uD835", "\\uDD5B">>, <<"\\uD835", "\\uDD5C">>,
   <<"\\uD835", "\\uDD5D">>, <<"\\uD835", "\\uDD5E">>,
   <<"\\uD835", "\\uDD5F">>, <<"\\uD835", "\\uDD60">>,
   <<"\\uD835", "\\uDD61">>, <<"\\uD835", "\\uDD62">>,
   <<"\\uD835", "\\uDD63">>, <<"\\uD835", "\\uDD64">>,
   <<"\\uD835", "\\uDD65">>, <<"\\uD835", "\\uDD66">>,
   <<"\\uD835", "\\uDD67">>, <<"\\uD835", "\\uDD68">>,
   <<"\\uD835", "\\uDD69">>, <<"\\uD835", "\\uDD6A">>,
   <<"\\uD835", "\\uDD6B">>, <<"\\uD835", "\\uDD6C">>,
   <<"\\uD835", "\\uDD6D">>, <<"\\uD835", "\\uDD6E">>,
   <<"\\uD835", "\\uDD6F">>, <<"\\uD835", "\\uDD70">>,
   <<"\\uD835", "\\uDD71">>, <<"\\uD835", "\\uDD72">>,
   <<"\\uD835", "\\uDD73">>, <<"\\uD835", "\\uDD74">>,
   <<"\\uD835", "\\uDD75">>, <<"\\uD835", "\\uDD76">>,
   <<"\\uD835", "\\uDD77">>, <<"\\uD835", "\\uDD78">>,
   <<"\\uD835", "\\uDD79">>, <<"\\uD835", "\\uDD7A">>,
   <<"\\uD835", "\\uDD7B">>, <<"\\uD835", "\\uDD7C">>,
   <<"\\uD835", "\\uDD7D">>, <<"\\uD835", "\\uDD7E">>,
   <<"\\uD835", "\\uDD7F">>, <<"\\uD835", "\\uDD80">>,
   <<"\\uD835", "\\uDD81">>, <<"\\uD835", "\\uDD82">>,
   <<"\\uD835", "\\uDD83">>, <<"\\uD835", "\\uDD84">>,
   <<"\\uD835", "\\uDD85">>, <<"\\uD835", "\\uDD86">>,
   <<"\\uD835", "\\uDD87">>, <<"\\uD835", "\\uDD88">>,
   <<"\\uD835", "\\uDD89">>, <<"\\uD835", "\\uDD8A">>,
   <<"\\uD835", "\\uDD8B">>, <<"\\uD835", "\\uDD8C">>,
   <<"\\uD835", "\\uDD8D">>, <<"\\uD835", "\\uDD8E">>,
   <<"\\uD835", "\\uDD8F">>, <<"\\uD835", "\\uDD90">>,
   <<"\\uD835", "\\uDD91">>, <<"\\uD835", "\\uDD92">>,
   <<"\\uD835", "\\uDD93">>, <<"\\uD835", "\\uDD94">>,
   <<"\\uD835", "\\uDD95">>, <<"\\uD835", "\\uDD96">>,
   <<"\\uD835", "\\uDD97">>, <<"\\uD835", "\\uDD98">>,
   <<"\\uD835", "\\uDD99">>, <<"\\uD835", "\\uDD9A">>,
   <<"\\uD835", "\\uDD9B">>, <<"\\uD835", "\\uDD9C">>,
   <<"\\uD835", "\\uDD9D">>, <<"\\uD835", "\\uDD9E">>,
   <<"\\uD835", "\\uDD9F">>, <<"\\uD835", "\\uDDA0">>,
   <<"\\uD835", "\\uDDA1">>, <<"\\uD835", "\\uDDA2">>,
   <<"\\uD835", "\\uDDA3">>, <<"\\uD835", "\\uDDA4">>,
   <<"\\uD835", "\\uDDA5">>, <<"\\uD835", "\\uDDA6">>,
   <<"\\uD835", "\\uDDA7">>, <<"\\uD835", "\\uDDA8">>,
   <<"\\uD835", "\\uDDA9">>, <<"\\uD835", "\\uDDAA">>,
   <<"\\uD835", "\\uDDAB">>, <<"\\uD835", "\\uDDAC">>,
   <<"\\uD835", "\\uDDAD">>, <<"\\uD835", "\\uDDAE">>,
   <<"\\uD835", "\\uDDAF">>, <<"\\uD835", "\\uDDB0">>,
   <<"\\uD835", "\\uDDB1">>, <<"\\uD835", "\\uDDB2">>,
   <<"\\uD835", "\\uDDB3">>, <<"\\uD835", "\\uDDB4">>,
   <<"\\uD835", "\\uDDB5">>, <<"\\uD835", "\\uDDB6">>,
   <<"\\uD835", "\\uDDB7">>, <<"\\uD835", "\\uDDB8">>,
   <<"\\uD835", "\\uDDB9">>, <<"\\uD835", "\\uDDBA">>,
   <<"\\uD835", "\\uDDBB">>, <<"\\uD835", "\\uDDBC">>,
   <<"\\uD835", "\\uDDBD">>, <<"\\uD835", "\\uDDBE">>,
   <<"\\uD835", "\\uDDBF">>, <<"\\uD835", "\\uDDC0">>,
   <<"\\uD835", "\\uDDC1">>, <<"\\uD835", "\\uDDC2">>,
   <<"\\uD835", "\\uDDC3">>, <<"\\uD835", "\\uDDC4">>,
   <<"\\uD835", "\\uDDC5">>, <<"\\uD835", "\\uDDC6">>,
   <<"\\uD835", "\\uDDC7">>, <<"\\uD835", "\\uDDC8">>,
   <<"\\uD835", "\\uDDC9">>, <<"\\uD835", "\\uDDCA">>,
   <<"\\uD835", "\\uDDCB">>, <<"\\uD835", "\\uDDCC">>,
   <<"\\uD835", "\\uDDCD">>, <<"\\uD835", "\\uDDCE">>,
   <<"\\uD835", "\\uDDCF">>, <<"\\uD835", "\\uDDD0">>,
   <<"\\uD835", "\\uDDD1">>, <<"\\uD835", "\\uDDD2">>,
   <<"\\uD835", "\\uDDD3">>, <<"\\uD835", "\\uDDD4">>,
   <<"\\uD835", "\\uDDD5">>, <<"\\uD835", "\\uDDD6">>,
   <<"\\uD835", "\\uDDD7">>, <<"\\uD835", "\\uDDD8">>,
   <<"\\uD835", "\\uDDD9">>, <<"\\uD835", "\\uDDDA">>,
   <<"\\uD835", "\\uDDDB">>, <<"\\uD835", "\\uDDDC">>,
   <<"\\uD835", "\\uDDDD">>, <<"\\uD835", "\\uDDDE">>,
   <<"\\uD835", "\\uDDDF">>, <<"\\uD835", "\\uDDE0">>,
   <<"\\uD835", "\\uDDE1">>, <<"\\uD835", "\\uDDE2">>,
   <<"\\uD835", "\\uDDE3">>, <<"\\uD835", "\\uDDE4">>,
   <<"\\uD835", "\\uDDE5">>, <<"\\uD835", "\\uDDE6">>,
   <<"\\uD835", "\\uDDE7">>, <<"\\uD835", "\\uDDE8">>,
   <<"\\uD835", "\\uDDE9">>, <<"\\uD835", "\\uDDEA">>,
   <<"\\uD835", "\\uDDEB">>, <<"\\uD835", "\\uDDEC">>,
   <<"\\uD835", "\\uDDED">>, <<"\\uD835", "\\uDDEE">>,
   <<"\\uD835", "\\uDDEF">>, <<"\\uD835", "\\uDDF0">>,
   <<"\\uD835", "\\uDDF1">>, <<"\\uD835", "\\uDDF2">>,
   <<"\\uD835", "\\uDDF3">>, <<"\\uD835", "\\uDDF4">>,
   <<"\\uD835", "\\uDDF5">>, <<"\\uD835", "\\uDDF6">>,
   <<"\\uD835", "\\uDDF7">>, <<"\\uD835", "\\uDDF8">>,
   <<"\\uD835", "\\uDDF9">>, <<"\\uD835", "\\uDDFA">>,
   <<"\\uD835", "\\uDDFB">>, <<"\\uD835", "\\uDDFC">>,
   <<"\\uD835", "\\uDDFD">>, <<"\\uD835", "\\uDDFE">>,
   <<"\\uD835", "\\uDDFF">>, <<"\\uD835", "\\uDE00">>,
   <<"\\uD835", "\\uDE01">>, <<"\\uD835", "\\uDE02">>,
   <<"\\uD835", "\\uDE03">>, <<"\\uD835", "\\uDE04">>,
   <<"\\uD835", "\\uDE05">>, <<"\\uD835", "\\uDE06">>,
   <<"\\uD835", "\\uDE07">>, <<"\\uD835", "\\uDE08">>,
   <<"\\uD835", "\\uDE09">>, <<"\\uD835", "\\uDE0A">>,
   <<"\\uD835", "\\uDE0B">>, <<"\\uD835", "\\uDE0C">>,
   <<"\\uD835", "\\uDE0D">>, <<"\\uD835", "\\uDE0E">>,
   <<"\\uD835", "\\uDE0F">>, <<"\\uD835", "\\uDE10">>,
   <<"\\uD835", "\\uDE11">>, <<"\\uD835", "\\uDE12">>,
   <<"\\uD835", "\\uDE13">>, <<"\\uD835", "\\uDE14">>,
   <<"\\uD835", "\\uDE15">>, <<"\\uD835", "\\uDE16">>,
   <<"\\uD835", "\\uDE17">>, <<"\\uD835", "\\uDE18">>,
   <<"\\uD835", "\\uDE19">>, <<"\\uD835", "\\uDE1A">>,
   <<"\\uD835", "\\uDE1B">>, <<"\\uD835", "\\uDE1C">>,
   <<"\\uD835", "\\uDE1D">>, <<"\\uD835", "\\uDE1E">>,
   <<"\\uD835", "\\uDE1F">>, <<"\\uD835", "\\uDE20">>,
   <<"\\uD835", "\\uDE21">>, <<"\\uD835", "\\uDE22">>,
   <<"\\uD835", "\\uDE23">>, <<"\\uD835", "\\uDE24">>,
   <<"\\uD835", "\\uDE25">>, <<"\\uD835", "\\uDE26">>,
   <<"\\uD835", "\\uDE27">>, <<"\\uD835", "\\uDE28">>,
   <<"\\uD835", "\\uDE29">>, <<"\\uD835", "\\uDE2A">>,
   <<"\\uD835", "\\uDE2B">>, <<"\\uD835", "\\uDE2C">>,
   <<"\\uD835", "\\uDE2D">>, <<"\\uD835", "\\uDE2E">>,
   <<"\\uD835", "\\uDE2F">>, <<"\\uD835", "\\uDE30">>,
   <<"\\uD835", "\\uDE31">>, <<"\\uD835", "\\uDE32">>,
   <<"\\uD835", "\\uDE33">>, <<"\\uD835", "\\uDE34">>,
   <<"\\uD835", "\\uDE35">>, <<"\\uD835", "\\uDE36">>,
   <<"\\uD835", "\\uDE37">>, <<"\\uD835", "\\uDE38">>,
   <<"\\uD835", "\\uDE39">>, <<"\\uD835", "\\uDE3A">>,
   <<"\\uD835", "\\uDE3B">>, <<"\\uD835", "\\uDE3C">>,
   <<"\\uD835", "\\uDE3D">>, <<"\\uD835", "\\uDE3E">>,
   <<"\\uD835", "\\uDE3F">>, <<"\\uD835", "\\uDE40">>,
   <<"\\uD835", "\\uDE41">>, <<"\\uD835", "\\uDE42">>,
   <<"\\uD835", "\\uDE43">>, <<"\\uD835", "\\uDE44">>,
   <<"\\uD835", "\\uDE45">>, <<"\\uD835", "\\uDE46">>,
   <<"\\uD835", "\\uDE47">>, <<"\\uD835", "\\uDE48">>,
   <<"\\uD835", "\\uDE49">>, <<"\\uD835", "\\uDE4A">>,
   <<"\\uD835", "\\uDE4B">>, <<"\\uD835", "\\uDE4C">>,
   <<"\\uD835", "\\uDE4D">>, <<"\\uD835", "\\uDE4E">>,
   <<"\\uD835", "\\uDE4F">>, <<"\\uD835", "\\uDE50">>,
   <<"\\uD835", "\\uDE51">>, <<"\\uD835", "\\uDE52">>,
   <<"\\uD835", "\\uDE53">>, <<"\\uD835", "\\uDE54">>,
   <<"\\uD835", "\\uDE55">>, <<"\\uD835", "\\uDE56">>,
   <<"\\uD835", "\\uDE57">>, <<"\\uD835", "\\uDE58">>,
   <<"\\uD835", "\\uDE59">>, <<"\\uD835", "\\uDE5A">>,
   <<"\\uD835", "\\uDE5B">>, <<"\\uD835", "\\uDE5C">>,
   <<"\\uD835", "\\uDE5D">>, <<"\\uD835", "\\uDE5E">>,
   <<"\\uD835", "\\uDE5F">>, <<"\\uD835", "\\uDE60">>,
   <<"\\uD835", "\\uDE61">>, <<"\\uD835", "\\uDE62">>,
   <<"\\uD835", "\\uDE63">>, <<"\\uD835", "\\uDE64">>,
   <<"\\uD835", "\\uDE65">>, <<"\\uD835", "\\uDE66">>,
   <<"\\uD835", "\\uDE67">>, <<"\\uD835", "\\uDE68">>,
   <<"\\uD835", "\\uDE69">>, <<"\\uD835", "\\uDE6A">>,
   <<"\\uD835", "\\uDE6B">>, <<"\\uD835", "\\uDE6C">>,
   <<"\\uD835", "\\uDE6D">>, <<"\\uD835", "\\uDE6E">>,
   <<"\\uD835", "\\uDE6F">>, <<"\\uD835", "\\uDE70">>,
   <<"\\uD835", "\\uDE71">>, <<"\\uD835", "\\uDE72">>,
   <<"\\uD835", "\\uDE73">>, <<"\\uD835", "\\uDE74">>,
   <<"\\uD835", "\\uDE75">>, <<"\\uD835", "\\uDE76">>,
   <<"\\uD835", "\\uDE77">>, <<"\\uD835", "\\uDE78">>,
   <<"\\uD835", "\\uDE79">>, <<"\\uD835", "\\uDE7A">>,
   <<"\\uD835", "\\uDE7B">>, <<"\\uD835", "\\uDE7C">>,
   <<"\\uD835", "\\uDE7D">>, <<"\\uD835", "\\uDE7E">>,
   <<"\\uD835", "\\uDE7F">>, <<"\\uD835", "\\uDE80">>,
   <<"\\uD835", "\\uDE81">>, <<"\\uD835", "\\uDE82">>,
   <<"\\uD835", "\\uDE83">>, <<"\\uD835", "\\uDE84">>,
   <<"\\uD835", "\\uDE85">>, <<"\\uD835", "\\uDE86">>,
   <<"\\uD835", "\\uDE87">>, <<"\\uD835", "\\uDE88">>,
   <<"\\uD835", "\\uDE89">>, <<"\\uD835", "\\uDE8A">>,
   <<"\\uD835", "\\uDE8B">>, <<"\\uD835", "\\uDE8C">>,
   <<"\\uD835", "\\uDE8D">>, <<"\\uD835", "\\uDE8E">>,
   <<"\\uD835", "\\uDE8F">>, <<"\\uD835", "\\uDE90">>,
   <<"\\uD835", "\\uDE91">>, <<"\\uD835", "\\uDE92">>,
   <<"\\uD835", "\\uDE93">>, <<"\\uD835", "\\uDE94">>,
   <<"\\uD835", "\\uDE95">>, <<"\\uD835", "\\uDE96">>,
   <<"\\uD835", "\\uDE97">>, <<"\\uD835", "\\uDE98">>,
   <<"\\uD835", "\\uDE99">>, <<"\\uD835", "\\uDE9A">>,
   <<"\\uD835", "\\uDE9B">>, <<"\\uD835", "\\uDE9C">>,
   <<"\\uD835", "\\uDE9D">>, <<"\\uD835", "\\uDE9E">>,
   <<"\\uD835", "\\uDE9F">>, <<"\\uD835", "\\uDEA0">>,
   <<"\\uD835", "\\uDEA1">>, <<"\\uD835", "\\uDEA2">>,
   <<"\\uD835", "\\uDEA3">>, <<"\\uD835", "\\uDEA4">>,
   <<"\\uD835", "\\uDEA5">>, <<"\\uD835", "\\uDEA8">>,
   <<"\\uD835", "\\uDEA9">>, <<"\\uD835", "\\uDEAA">>,
   <<"\\uD835", "\\uDEAB">>, <<"\\uD835", "\\uDEAC">>,
   <<"\\uD835", "\\uDEAD">>, <<"\\uD835", "\\uDEAE">>,
   <<"\\uD835", "\\uDEAF">>, <<"\\uD835", "\\uDEB0">>,
   <<"\\uD835", "\\uDEB1">>, <<"\\uD835", "\\uDEB2">>,
   <<"\\uD835", "\\uDEB3">>, <<"\\uD835", "\\uDEB4">>,
   <<"\\uD835", "\\uDEB5">>, <<"\\uD835", "\\uDEB6">>,
   <<"\\uD835", "\\uDEB7">>, <<"\\uD835", "\\uDEB8">>,
   <<"\\uD835", "\\uDEB9">>, <<"\\uD835", "\\uDEBA">>,
   <<"\\uD835", "\\uDEBB">>, <<"\\uD835", "\\uDEBC">>,
   <<"\\uD835", "\\uDEBD">>, <<"\\uD835", "\\uDEBE">>,
   <<"\\uD835", "\\uDEBF">>, <<"\\uD835", "\\uDEC0">>,
   <<"\\uD835", "\\uDEC2">>, <<"\\uD835", "\\uDEC3">>,
   <<"\\uD835", "\\uDEC4">>, <<"\\uD835", "\\uDEC5">>,
   <<"\\uD835", "\\uDEC6">>, <<"\\uD835", "\\uDEC7">>,
   <<"\\uD835", "\\uDEC8">>, <<"\\uD835", "\\uDEC9">>,
   <<"\\uD835", "\\uDECA">>, <<"\\uD835", "\\uDECB">>,
   <<"\\uD835", "\\uDECC">>, <<"\\uD835", "\\uDECD">>,
   <<"\\uD835", "\\uDECE">>, <<"\\uD835", "\\uDECF">>,
   <<"\\uD835", "\\uDED0">>, <<"\\uD835", "\\uDED1">>,
   <<"\\uD835", "\\uDED2">>, <<"\\uD835", "\\uDED3">>,
   <<"\\uD835", "\\uDED4">>, <<"\\uD835", "\\uDED5">>,
   <<"\\uD835", "\\uDED6">>, <<"\\uD835", "\\uDED7">>,
   <<"\\uD835", "\\uDED8">>, <<"\\uD835", "\\uDED9">>,
   <<"\\uD835", "\\uDEDA">>, <<"\\uD835", "\\uDEDC">>,
   <<"\\uD835", "\\uDEDD">>, <<"\\uD835", "\\uDEDE">>,
   <<"\\uD835", "\\uDEDF">>, <<"\\uD835", "\\uDEE0">>,
   <<"\\uD835", "\\uDEE1">>, <<"\\uD835", "\\uDEE2">>,
   <<"\\uD835", "\\uDEE3">>, <<"\\uD835", "\\uDEE4">>,
   <<"\\uD835", "\\uDEE5">>, <<"\\uD835", "\\uDEE6">>,
   <<"\\uD835", "\\uDEE7">>, <<"\\uD835", "\\uDEE8">>,
   <<"\\uD835", "\\uDEE9">>, <<"\\uD835", "\\uDEEA">>,
   <<"\\uD835", "\\uDEEB">>, <<"\\uD835", "\\uDEEC">>,
   <<"\\uD835", "\\uDEED">>, <<"\\uD835", "\\uDEEE">>,
   <<"\\uD835", "\\uDEEF">>, <<"\\uD835", "\\uDEF0">>,
   <<"\\uD835", "\\uDEF1">>, <<"\\uD835", "\\uDEF2">>,
   <<"\\uD835", "\\uDEF3">>, <<"\\uD835", "\\uDEF4">>,
   <<"\\uD835", "\\uDEF5">>, <<"\\uD835", "\\uDEF6">>,
   <<"\\uD835", "\\uDEF7">>, <<"\\uD835", "\\uDEF8">>,
   <<"\\uD835", "\\uDEF9">>, <<"\\uD835", "\\uDEFA">>,
   <<"\\uD835", "\\uDEFC">>, <<"\\uD835", "\\uDEFD">>,
   <<"\\uD835", "\\uDEFE">>, <<"\\uD835", "\\uDEFF">>,
   <<"\\uD835", "\\uDF00">>, <<"\\uD835", "\\uDF01">>,
   <<"\\uD835", "\\uDF02">>, <<"\\uD835", "\\uDF03">>,
   <<"\\uD835", "\\uDF04">>, <<"\\uD835", "\\uDF05">>,
   <<"\\uD835", "\\uDF06">>, <<"\\uD835", "\\uDF07">>,
   <<"\\uD835", "\\uDF08">>, <<"\\uD835", "\\uDF09">>,
   <<"\\uD835", "\\uDF0A">>, <<"\\uD835", "\\uDF0B">>,
   <<"\\uD835", "\\uDF0C">>, <<"\\uD835", "\\uDF0D">>,
   <<"\\uD835", "\\uDF0E">>, <<"\\uD835", "\\uDF0F">>,
   <<"\\uD835", "\\uDF10">>, <<"\\uD835", "\\uDF11">>,
   <<"\\uD835", "\\uDF12">>, <<"\\uD835", "\\uDF13">>,
   <<"\\uD835", "\\uDF14">>, <<"\\uD835", "\\uDF16">>,
   <<"\\uD835", "\\uDF17">>, <<"\\uD835", "\\uDF18">>,
   <<"\\uD835", "\\uDF19">>, <<"\\uD835", "\\uDF1A">>,
   <<"\\uD835", "\\uDF1B">>, <<"\\uD835", "\\uDF1C">>,
   <<"\\uD835", "\\uDF1D">>, <<"\\uD835", "\\uDF1E">>,
   <<"\\uD835", "\\uDF1F">>, <<"\\uD835", "\\uDF20">>,
   <<"\\uD835", "\\uDF21">>, <<"\\uD835", "\\uDF22">>,
   <<"\\uD835", "\\uDF23">>, <<"\\uD835", "\\uDF24">>,
   <<"\\uD835", "\\uDF25">>, <<"\\uD835", "\\uDF26">>,
   <<"\\uD835", "\\uDF27">>, <<"\\uD835", "\\uDF28">>,
   <<"\\uD835", "\\uDF29">>, <<"\\uD835", "\\uDF2A">>,
   <<"\\uD835", "\\uDF2B">>, <<"\\uD835", "\\uDF2C">>,
   <<"\\uD835", "\\uDF2D">>, <<"\\uD835", "\\uDF2E">>,
   <<"\\uD835", "\\uDF2F">>, <<"\\uD835", "\\uDF30">>,
   <<"\\uD835", "\\uDF31">>, <<"\\uD835", "\\uDF32">>,
   <<"\\uD835", "\\uDF33">>, <<"\\uD835", "\\uDF34">>,
   <<"\\uD835", "\\uDF36">>, <<"\\uD835", "\\uDF37">>,
   <<"\\uD835", "\\uDF38">>, <<"\\uD835", "\\uDF39">>,
   <<"\\uD835", "\\uDF3A">>, <<"\\uD835", "\\uDF3B">>,
   <<"\\uD835", "\\uDF3C">>, <<"\\uD835", "\\uDF3D">>,
   <<"\\uD835", "\\uDF3E">>, <<"\\uD835", "\\uDF3F">>,
   <<"\\uD835", "\\uDF40">>, <<"\\uD835", "\\uDF41">>,
   <<"\\uD835", "\\uDF42">>, <<"\\uD835", "\\uDF43">>,
   <<"\\uD835", "\\uDF44">>, <<"\\uD835", "\\uDF45">>,
   <<"\\uD835", "\\uDF46">>, <<"\\uD835", "\\uDF47">>,
   <<"\\uD835", "\\uDF48">>, <<"\\uD835", "\\uDF49">>,
   <<"\\uD835", "\\uDF4A">>, <<"\\uD835", "\\uDF4B">>,
   <<"\\uD835", "\\uDF4C">>, <<"\\uD835", "\\uDF4D">>,
   <<"\\uD835", "\\uDF4E">>, <<"\\uD835", "\\uDF50">>,
   <<"\\uD835", "\\uDF51">>, <<"\\uD835", "\\uDF52">>,
   <<"\\uD835", "\\uDF53">>, <<"\\uD835", "\\uDF54">>,
   <<"\\uD835", "\\uDF55">>, <<"\\uD835", "\\uDF56">>,
   <<"\\uD835", "\\uDF57">>, <<"\\uD835", "\\uDF58">>,
   <<"\\uD835", "\\uDF59">>, <<"\\uD835", "\\uDF5A">>,
   <<"\\uD835", "\\uDF5B">>, <<"\\uD835", "\\uDF5C">>,
   <<"\\uD835", "\\uDF5D">>, <<"\\uD835", "\\uDF5E">>,
   <<"\\uD835", "\\uDF5F">>, <<"\\uD835", "\\uDF60">>,
   <<"\\uD835", "\\uDF61">>, <<"\\uD835", "\\uDF62">>,
   <<"\\uD835", "\\uDF63">>, <<"\\uD835", "\\uDF64">>,
   <<"\\uD835", "\\uDF65">>, <<"\\uD835", "\\uDF66">>,
   <<"\\uD835", "\\uDF67">>, <<"\\uD835", "\\uDF68">>,
   <<"\\uD835", "\\uDF69">>, <<"\\uD835", "\\uDF6A">>,
   <<"\\uD835", "\\uDF6B">>, <<"\\uD835", "\\uDF6C">>,
   <<"\\uD835", "\\uDF6D">>, <<"\\uD835", "\\uDF6E">>,
   <<"\\uD835", "\\uDF70">>, <<"\\uD835", "\\uDF71">>,
   <<"\\uD835", "\\uDF72">>, <<"\\uD835", "\\uDF73">>,
   <<"\\uD835", "\\uDF74">>, <<"\\uD835", "\\uDF75">>,
   <<"\\uD835", "\\uDF76">>, <<"\\uD835", "\\uDF77">>,
   <<"\\uD835", "\\uDF78">>, <<"\\uD835", "\\uDF79">>,
   <<"\\uD835", "\\uDF7A">>, <<"\\uD835", "\\uDF7B">>,
   <<"\\uD835", "\\uDF7C">>, <<"\\uD835", "\\uDF7D">>,
   <<"\\uD835", "\\uDF7E">>, <<"\\uD835", "\\uDF7F">>,
   <<"\\uD835", "\\uDF80">>, <<"\\uD835", "\\uDF81">>,
   <<"\\uD835", "\\uDF82">>, <<"\\uD835", "\\uDF83">>,
   <<"\\uD835", "\\uDF84">>, <<"\\uD835", "\\uDF85">>,
   <<"\\uD835", "\\uDF86">>, <<"\\uD835", "\\uDF87">>,
   <<"\\uD835", "\\uDF88">>, <<"\\uD835", "\\uDF8A">>,
   <<"\\uD835", "\\uDF8B">>, <<"\\uD835", "\\uDF8C">>,
   <<"\\uD835", "\\uDF8D">>, <<"\\uD835", "\\uDF8E">>,
   <<"\\uD835", "\\uDF8F">>, <<"\\uD835", "\\uDF90">>,
   <<"\\uD835", "\\uDF91">>, <<"\\uD835", "\\uDF92">>,
   <<"\\uD835", "\\uDF93">>, <<"\\uD835", "\\uDF94">>,
   <<"\\uD835", "\\uDF95">>, <<"\\uD835", "\\uDF96">>,
   <<"\\uD835", "\\uDF97">>, <<"\\uD835", "\\uDF98">>,
   <<"\\uD835", "\\uDF99">>, <<"\\uD835", "\\uDF9A">>,
   <<"\\uD835", "\\uDF9B">>, <<"\\uD835", "\\uDF9C">>,
   <<"\\uD835", "\\uDF9D">>, <<"\\uD835", "\\uDF9E">>,
   <<"\\uD835", "\\uDF9F">>, <<"\\uD835", "\\uDFA0">>,
   <<"\\uD835", "\\uDFA1">>, <<"\\uD835", "\\uDFA2">>,
   <<"\\uD835", "\\uDFA3">>, <<"\\uD835", "\\uDFA4">>,
   <<"\\uD835", "\\uDFA5">>, <<"\\uD835", "\\uDFA6">>,
   <<"\\uD835", "\\uDFA7">>, <<"\\uD835", "\\uDFA8">>,
   <<"\\uD835", "\\uDFAA">>, <<"\\uD835", "\\uDFAB">>,
   <<"\\uD835", "\\uDFAC">>, <<"\\uD835", "\\uDFAD">>,
   <<"\\uD835", "\\uDFAE">>, <<"\\uD835", "\\uDFAF">>,
   <<"\\uD835", "\\uDFB0">>, <<"\\uD835", "\\uDFB1">>,
   <<"\\uD835", "\\uDFB2">>, <<"\\uD835", "\\uDFB3">>,
   <<"\\uD835", "\\uDFB4">>, <<"\\uD835", "\\uDFB5">>,
   <<"\\uD835", "\\uDFB6">>, <<"\\uD835", "\\uDFB7">>,
   <<"\\uD835", "\\uDFB8">>, <<"\\uD835", "\\uDFB9">>,
   <<"\\uD835", "\\uDFBA">>, <<"\\uD835", "\\uDFBB">>,
   <<"\\uD835", "\\uDFBC">>, <<"\\uD835", "\\uDFBD">>,
   <<"\\uD835", "\\uDFBE">>, <<"\\uD835", "\\uDFBF">>,
   <<"\\uD835", "\\uDFC0">>, <<"\\uD835", "\\uDFC1">>,
   <<"\\uD835", "\\uDFC2">>, <<"\\uD835", "\\uDFC4">>,
   <<"\\uD835", "\\uDFC5">>, <<"\\uD835", "\\uDFC6">>,
   <<"\\uD835", "\\uDFC7">>, <<"\\uD835", "\\uDFC8">>,
   <<"\\uD835", "\\uDFC9">>, <<"\\uD835", "\\uDFCA">>,
   <<"\\uD835", "\\uDFCB">>, <<"\\uD837", "\\uDF00">>,
   <<"\\uD837", "\\uDF01">>, <<"\\uD837", "\\uDF02">>,
   <<"\\uD837", "\\uDF03">>, <<"\\uD837", "\\uDF04">>,
   <<"\\uD837", "\\uDF05">>, <<"\\uD837", "\\uDF06">>,
   <<"\\uD837", "\\uDF07">>, <<"\\uD837", "\\uDF08">>,
   <<"\\uD837", "\\uDF09">>, <<"\\uD837", "\\uDF0B">>,
   <<"\\uD837", "\\uDF0C">>, <<"\\uD837", "\\uDF0D">>,
   <<"\\uD837", "\\uDF0E">>, <<"\\uD837", "\\uDF0F">>,
   <<"\\uD837", "\\uDF10">>, <<"\\uD837", "\\uDF11">>,
   <<"\\uD837", "\\uDF12">>, <<"\\uD837", "\\uDF13">>,
   <<"\\uD837", "\\uDF14">>, <<"\\uD837", "\\uDF15">>,
   <<"\\uD837", "\\uDF16">>, <<"\\uD837", "\\uDF17">>,
   <<"\\uD837", "\\uDF18">>, <<"\\uD837", "\\uDF19">>,
   <<"\\uD837", "\\uDF1A">>, <<"\\uD837", "\\uDF1B">>,
   <<"\\uD837", "\\uDF1C">>, <<"\\uD837", "\\uDF1D">>,
   <<"\\uD837", "\\uDF1E">>, <<"\\uD837", "\\uDF25">>,
   <<"\\uD837", "\\uDF26">>, <<"\\uD837", "\\uDF27">>,
   <<"\\uD837", "\\uDF28">>, <<"\\uD837", "\\uDF29">>,
   <<"\\uD837", "\\uDF2A">>, <<"\\uD838", "\\uDC30">>,
   <<"\\uD838", "\\uDC31">>, <<"\\uD838", "\\uDC32">>,
   <<"\\uD838", "\\uDC33">>, <<"\\uD838", "\\uDC34">>,
   <<"\\uD838", "\\uDC35">>, <<"\\uD838", "\\uDC36">>,
   <<"\\uD838", "\\uDC37">>, <<"\\uD838", "\\uDC38">>,
   <<"\\uD838", "\\uDC39">>, <<"\\uD838", "\\uDC3A">>,
   <<"\\uD838", "\\uDC3B">>, <<"\\uD838", "\\uDC3C">>,
   <<"\\uD838", "\\uDC3D">>, <<"\\uD838", "\\uDC3E">>,
   <<"\\uD838", "\\uDC3F">>, <<"\\uD838", "\\uDC40">>,
   <<"\\uD838", "\\uDC41">>, <<"\\uD838", "\\uDC42">>,
   <<"\\uD838", "\\uDC43">>, <<"\\uD838", "\\uDC44">>,
   <<"\\uD838", "\\uDC45">>, <<"\\uD838", "\\uDC46">>,
   <<"\\uD838", "\\uDC47">>, <<"\\uD838", "\\uDC48">>,
   <<"\\uD838", "\\uDC49">>, <<"\\uD838", "\\uDC4A">>,
   <<"\\uD838", "\\uDC4B">>, <<"\\uD838", "\\uDC4C">>,
   <<"\\uD838", "\\uDC4D">>, <<"\\uD838", "\\uDC4E">>,
   <<"\\uD838", "\\uDC4F">>, <<"\\uD838", "\\uDC50">>,
   <<"\\uD838", "\\uDC51">>, <<"\\uD838", "\\uDC52">>,
   <<"\\uD838", "\\uDC53">>, <<"\\uD838", "\\uDC54">>,
   <<"\\uD838", "\\uDC55">>, <<"\\uD838", "\\uDC56">>,
   <<"\\uD838", "\\uDC57">>, <<"\\uD838", "\\uDC58">>,
   <<"\\uD838", "\\uDC59">>, <<"\\uD838", "\\uDC5A">>,
   <<"\\uD838", "\\uDC5B">>, <<"\\uD838", "\\uDC5C">>,
   <<"\\uD838", "\\uDC5D">>, <<"\\uD838", "\\uDC5E">>,
   <<"\\uD838", "\\uDC5F">>, <<"\\uD838", "\\uDC60">>,
   <<"\\uD838", "\\uDC61">>, <<"\\uD838", "\\uDC62">>,
   <<"\\uD838", "\\uDC63">>, <<"\\uD838", "\\uDC64">>,
   <<"\\uD838", "\\uDC65">>, <<"\\uD838", "\\uDC66">>,
   <<"\\uD838", "\\uDC67">>, <<"\\uD838", "\\uDC68">>,
   <<"\\uD838", "\\uDC69">>, <<"\\uD838", "\\uDC6A">>,
   <<"\\uD838", "\\uDC6B">>, <<"\\uD838", "\\uDC6C">>,
   <<"\\uD838", "\\uDC6D">>, <<"\\uD83C", "\\uDD30">>,
   <<"\\uD83C", "\\uDD31">>, <<"\\uD83C", "\\uDD32">>,
   <<"\\uD83C", "\\uDD33">>, <<"\\uD83C", "\\uDD34">>,
   <<"\\uD83C", "\\uDD35">>, <<"\\uD83C", "\\uDD36">>,
   <<"\\uD83C", "\\uDD37">>, <<"\\uD83C", "\\uDD38">>,
   <<"\\uD83C", "\\uDD39">>, <<"\\uD83C", "\\uDD3A">>,
   <<"\\uD83C", "\\uDD3B">>, <<"\\uD83C", "\\uDD3C">>,
   <<"\\uD83C", "\\uDD3D">>, <<"\\uD83C", "\\uDD3E">>,
   <<"\\uD83C", "\\uDD3F">>, <<"\\uD83C", "\\uDD40">>,
   <<"\\uD83C", "\\uDD41">>, <<"\\uD83C", "\\uDD42">>,
   <<"\\uD83C", "\\uDD43">>, <<"\\uD83C", "\\uDD44">>,
   <<"\\uD83C", "\\uDD45">>, <<"\\uD83C", "\\uDD46">>,
   <<"\\uD83C", "\\uDD47">>, <<"\\uD83C", "\\uDD48">>,
   <<"\\uD83C", "\\uDD49">>, <<"\\uD83C", "\\uDD50">>,
   <<"\\uD83C", "\\uDD51">>, <<"\\uD83C", "\\uDD52">>,
   <<"\\uD83C", "\\uDD53">>, <<"\\uD83C", "\\uDD54">>,
   <<"\\uD83C", "\\uDD55">>, <<"\\uD83C", "\\uDD56">>,
   <<"\\uD83C", "\\uDD57">>, <<"\\uD83C", "\\uDD58">>,
   <<"\\uD83C", "\\uDD59">>, <<"\\uD83C", "\\uDD5A">>,
   <<"\\uD83C", "\\uDD5B">>, <<"\\uD83C", "\\uDD5C">>,
   <<"\\uD83C", "\\uDD5D">>, <<"\\uD83C", "\\uDD5E">>,
   <<"\\uD83C", "\\uDD5F">>, <<"\\uD83C", "\\uDD60">>,
   <<"\\uD83C", "\\uDD61">>, <<"\\uD83C", "\\uDD62">>,
   <<"\\uD83C", "\\uDD63">>, <<"\\uD83C", "\\uDD64">>,
   <<"\\uD83C", "\\uDD65">>, <<"\\uD83C", "\\uDD66">>,
   <<"\\uD83C", "\\uDD67">>, <<"\\uD83C", "\\uDD68">>,
   <<"\\uD83C", "\\uDD69">>, <<"\\uD83C", "\\uDD70">>,
   <<"\\uD83C", "\\uDD71">>, <<"\\uD83C", "\\uDD72">>,
   <<"\\uD83C", "\\uDD73">>, <<"\\uD83C", "\\uDD74">>,
   <<"\\uD83C", "\\uDD75">>, <<"\\uD83C", "\\uDD76">>,
   <<"\\uD83C", "\\uDD77">>, <<"\\uD83C", "\\uDD78">>,
   <<"\\uD83C", "\\uDD79">>, <<"\\uD83C", "\\uDD7A">>,
   <<"\\uD83C", "\\uDD7B">>, <<"\\uD83C", "\\uDD7C">>,
   <<"\\uD83C", "\\uDD7D">>, <<"\\uD83C", "\\uDD7E">>,
   <<"\\uD83C", "\\uDD7F">>, <<"\\uD83C", "\\uDD80">>,
   <<"\\uD83C", "\\uDD81">>, <<"\\uD83C", "\\uDD82">>,
   <<"\\uD83C", "\\uDD83">>, <<"\\uD83C", "\\uDD84">>,
   <<"\\uD83C", "\\uDD85">>, <<"\\uD83C", "\\uDD86">>,
   <<"\\uD83C", "\\uDD87">>, <<"\\uD83C", "\\uDD88">>,
   <<"\\uD83C", "\\uDD89">>}

\* The case-ignorable characters: marks, modifiers, format characters and
\* the punctuation inside words
CaseIgnorable ==
  {"'", ".", ":", "^", "\\u0060", "¨", "­", "¯", "´", "·", "¸", "ʰ", "ʱ", "ʲ",
   "ʳ", "ʴ", "ʵ", "ʶ", "ʷ", "ʸ", "ʹ", "ʺ", "ʻ", "ʼ", "ʽ", "ʾ", "ʿ", "ˀ", "ˁ",
   "˂", "˃", "˄", "˅", "ˆ", "ˇ", "ˈ", "ˉ", "ˊ", "ˋ", "ˌ", "ˍ", "ˎ", "ˏ", "ː",
   "ˑ", "˒", "˓", "˔", "˕", "˖", "˗", "˘", "˙", "˚", "˛", "˜", "˝", "˞", "˟",
   "ˠ", "ˡ", "ˢ", "ˣ", "ˤ", "˥", "˦", "˧", "˨", "˩", "˪", "˫", "ˬ", "˭", "ˮ",
   "˯", "˰", "˱", "˲", "˳", "˴", "˵", "˶", "˷", "˸", "˹", "˺", "˻", "˼", "˽",
   "˾", "˿", "\\u0300", "\\u0301", "\\u0302", "\\u0303", "\\u0304", "\\u0305",
   "\\u0306", "\\u0307", "\\u0308", "\\u0309", "\\u030A", "\\u030B",
   "\\u030C", "\\u030D", "\\u030E", "\\u030F", "\\u0310", "\\u0311",
   "\\u0312", "\\u0313", "\\u0314", "\\u0315", "\\u0316", "\\u0317",
   "\\u0318", "\\u0319", "\\u031A", "\\u031B", "\\u031C", "\\u031D",
   "\\u031E", "\\u031F", "\\u0320", "\\u0321", "\\u0322", "\\u0323",
   "\\u0324", "\\u0325", "\\u0326", "\\u0327", "\\u0328", "\\u0329",
   "\\u032A", "\\u032B", "\\u032C", "\\u032D", "\\u032E", "\\u032F",
   "\\u0330", "\\u0331", "\\u0332", "\\u0333", "\\u0334", "\\u0335",
   "\\u0336", "\\u0337", "\\u0338", "\\u0339", "\\u033A", "\\u033B",
   "\\u033C", "\\u033D", "\\u033E", "\\u033F", "\\u0340", "\\u0341",
   "\\u0342", "\\u0343", "\\u0344", "\\u0345", "\\u0346", "\\u0347",
   "\\u0348", "\\u0349", "\\u034A", "\\u034B", "\\u034C", "\\u034D",
   "\\u034E", "\\u034F", "\\u0350", "\\u0351", "\\u0352", "\\u0353",
   "\\u0354", "\\u0355", "\\u0356", "\\u0357", "\\u0358", "\\u0359",
   "\\u035A", "\\u035B", "\\u035C", "\\u035D", "\\u035E", "\\u035F",
   "\\u0360", "\\u0361", "\\u0362", "\\u0363", "\\u0364", "\\u0365",
   "\\u0366", "\\u0367", "\\u0368", "\\u0369", "\\u036A", "\\u036B",
   "\\u036C", "\\u036D", "\\u036E", "\\u036F", "\\u0374", "\\u0375",
   "\\u037A", "΄", "΅", "·", "҃", "҄", "҅", "҆", "҇", "҈", "҉", "\\u0559",
   "\\u055F", "֑", "֒", "֓", "֔", "֕", "֖", "֗", "֘", "֙", "֚", "֛", "֜", "֝",
   "֞", "֟", "֠", "֡", "֢", "֣", "֤", "֥", "֦", "֧", "֨", "֩", "֪", "֫", "֬",
   "֭", "֮", "֯", "ְ", "ֱ", "ֲ", "ֳ", "ִ", "ֵ", "ֶ", "ַ", "ָ", "ֹ", "ֺ", "ֻ",
   "ּ", "ֽ", "ֿ", "ׁ", "ׂ", "ׄ", "ׅ", "ׇ", "״", "\\u0600", "\\u0601",
   "\\u0602", "\\u0603", "\\u0604", "\\u0605", "\\u0610", "\\u0611",
   "\\u0612", "\\u0613", "\\u0614", "\\u0615", "\\u0616", "\\u0617",
   "\\u0618", "\\u0619", "\\u061A", "\\u061C", "\\u0640", "\\u064B",
   "\\u064C", "\\u064D", "\\u064E", "\\u064F", "\\u0650", "\\u0651",
   "\\u0652", "\\u0653", "\\u0654", "\\u0655", "\\u0656", "\\u0657",
   "\\u0658", "\\u0659", "\\u065A", "\\u065B", "\\u065C", "\\u065D",
   "\\u065E", "\\u065F", "\\u0670", "ۖ", "ۗ", "ۘ", "ۙ", "ۚ", "ۛ", "ۜ", "۝",
   "۟", "۠", "ۡ", "ۢ", "ۣ", "ۤ", "ۥ", "ۦ", "ۧ", "ۨ", "۪", "۫", "۬", "ۭ",
   "\\u070F", "\\u0711", "\\u0730", "\\u0731", "\\u0732", "\\u0733",
   "\\u0734", "\\u0735", "\\u0736", "\\u0737", "\\u0738", "\\u0739",
   "\\u073A", "\\u073B", "\\u073C", "\\u073D", "\\u073E", "\\u073F",
   "\\u0740", "\\u0741", "\\u0742", "\\u0743", "\\u0744", "\\u0745",
   "\\u0746", "\\u0747", "\\u0748", "\\u0749", "\\u074A", "ަ", "ާ", "ި", "ީ",
   "ު", "ޫ", "ެ", "ޭ", "ޮ", "ޯ", "ް", "߫", "߬", "߭", "߮", "߯", "߰", "߱", "߲",
   "߳", "ߴ", "ߵ", "ߺ", "߽", "\\u0816", "\\u0817", "\\u0818", "\\u0819",
   "\\u081A", "\\u081B", "\\u081C", "\\u081D", "\\u081E", "\\u081F",
   "\\u0820", "\\u0821", "\\u0822", "\\u0823", "\\u0824", "\\u0825",
   "\\u0826", "\\u0827", "\\u0828", "\\u0829", "\\u082A", "\\u082B",
   "\\u082C", "\\u082D", "\\u0859", "\\u085A", "\\u085B", "࢈", "࢐", "࢑", "ࢗ",
   "࢘", "࢙", "࢚", "࢛", "࢜", "࢝", "࢞", "࢟", "ࣉ", "࣊", "࣋", "࣌", "࣍", "࣎", "࣏",
   "࣐", "࣑", "࣒", "࣓", "ࣔ", "ࣕ", "ࣖ", "ࣗ", "ࣘ", "ࣙ", "ࣚ", "ࣛ", "ࣜ", "ࣝ", "ࣞ",
   "ࣟ", "࣠", "࣡", "࣢", "ࣣ", "ࣤ", "ࣥ", "ࣦ", "ࣧ", "ࣨ", "ࣩ", "࣪", "࣫", "࣬", "࣭",
   "࣮", "࣯", "ࣰ", "ࣱ", "ࣲ", "ࣳ", "ࣴ", "ࣵ", "ࣶ", "ࣷ", "ࣸ", "ࣹ", "ࣺ", "ࣻ", "ࣼ",
   "ࣽ", "ࣾ", "ࣿ", "\\u0900", "\\u0901", "\\u0902", "\\u093A", "\\u093C",
   "\\u0941", "\\u0942", "\\u0943", "\\u0944", "\\u0945", "\\u0946",
   "\\u0947", "\\u0948", "\\u094D", "\\u0951", "\\u0952", "\\u0953",
   "\\u0954", "\\u0955", "\\u0956", "\\u0957", "\\u0962", "\\u0963",
   "\\u0971", "ঁ", "়", "ু", "ূ", "ৃ", "ৄ", "্", "ৢ", "ৣ", "৾", "\\u0A01",
   "\\u0A02", "\\u0A3C", "\\u0A41", "\\u0A42", "\\u0A47", "\\u0A48",
   "\\u0A4B", "\\u0A4C", "\\u0A4D", "\\u0A51", "\\u0A70", "\\u0A71",
   "\\u0A75", "ઁ", "ં", "઼", "ુ", "ૂ", "ૃ", "ૄ", "ૅ", "ે", "ૈ", "્", "ૢ", "ૣ",
   "ૺ", "ૻ", "ૼ", "૽", "૾", "૿", "\\u0B01", "\\u0B3C", "\\u0B3F", "\\u0B41",
   "\\u0B42", "\\u0B43", "\\u0B44", "\\u0B4D", "\\u0B55", "\\u0B56",
   "\\u0B62", "\\u0B63", "ஂ", "ீ", "்", "\\u0C00", "\\u0C04", "\\u0C3C",
   "\\u0C3E", "\\u0C3F", "\\u0C40", "\\u0C46", "\\u0C47", "\\u0C48",
   "\\u0C4A", "\\u0C4B", "\\u0C4C", "\\u0C4D", "\\u0C55", "\\u0C56",
   "\\u0C62", "\\u0C63", "ಁ", "಼", "ಿ", "ೆ", "ೌ", "್", "ೢ", "ೣ", "\\u0D00",
   "\\u0D01", "\\u0D3B", "\\u0D3C", "\\u0D41", "\\u0D42", "\\u0D43",
   "\\u0D44", "\\u0D4D", "\\u0D62", "\\u0D63", "ඁ", "්", "ි", "ී", "ු", "ූ",
   "\\u0E31", "\\u0E34", "\\u0E35", "\\u0E36", "\\u0E37", "\\u0E38",
   "\\u0E39", "\\u0E3A", "\\u0E46", "\\u0E47", "\\u0E48", "\\u0E49",
   "\\u0E4A", "\\u0E4B", "\\u0E4C", "\\u0E4D", "\\u0E4E", "ັ", "ິ", "ີ", "ຶ",
   "ື", "ຸ", "ູ", "຺", "ົ", "ຼ", "ໆ", "່", "້", "໊", "໋", "໌", "ໍ", "໎",
   "\\u0F18", "\\u0F19", "\\u0F35", "\\u0F37", "\\u0F39", "\\u0F71",
   "\\u0F72", "\\u0F73", "\\u0F74", "\\u0F75", "\\u0F76", "\\u0F77",
   "\\u0F78", "\\u0F79", "\\u0F7A", "\\u0F7B", "\\u0F7C", "\\u0F7D",
   "\\u0F7E", "ྀ", "ཱྀ", "ྂ", "ྃ", "྄", "྆", "྇", "ྍ", "ྎ", "ྏ", "ྐ", "ྑ", "ྒ",
   "ྒྷ", "ྔ", "ྕ", "ྖ", "ྗ", "ྙ", "ྚ", "ྛ", "ྜ", "ྜྷ", "ྞ", "ྟ", "ྠ", "ྡ", "ྡྷ",
   "ྣ", "ྤ", "ྥ", "ྦ", "ྦྷ", "ྨ", "ྩ", "ྪ", "ྫ", "ྫྷ", "ྭ", "ྮ", "ྯ", "ྰ", "ྱ",
   "ྲ", "ླ", "ྴ", "ྵ", "ྶ", "ྷ", "ྸ", "ྐྵ", "ྺ", "ྻ", "ྼ", "࿆", "\\u102D",
   "\\u102E", "\\u102F", "\\u1030", "\\u1032", "\\u1033", "\\u1034",
   "\\u1035", "\\u1036", "\\u1037", "\\u1039", "\\u103A", "\\u103D",
   "\\u103E", "\\u1058", "\\u1059", "\\u105E", "\\u105F", "\\u1060",
   "\\u1071", "\\u1072", "\\u1073", "\\u1074", "ႂ", "ႅ", "ႆ", "ႍ", "ႝ", "ჼ",
   "\\u135D", "\\u135E", "\\u135F", "\\u1712", "\\u1713", "\\u1714",
   "\\u1732", "\\u1733", "\\u1752", "\\u1753", "\\u1772", "\\u1773", "឴", "឵",
   "ិ", "ី", "ឹ", "ឺ", "ុ", "ូ", "ួ", "ំ", "៉", "៊", "់", "៌", "៍", "៎", "៏",
   "័", "៑", "្", "៓", "ៗ", "៝", "\\u180B", "\\u180C", "\\u180D", "\\u180E",
   "\\u180F", "\\u1843", "ᢅ", "ᢆ", "ᢩ", "\\u1920", "\\u1921", "\\u1922",
   "\\u1927", "\\u1928", "\\u1932", "\\u1939", "\\u193A", "\\u193B",
   "\\u1A17", "\\u1A18", "\\u1A1B", "\\u1A56", "\\u1A58", "\\u1A59",
   "\\u1A5A", "\\u1A5B", "\\u1A5C", "\\u1A5D", "\\u1A5E", "\\u1A60",
   "\\u1A62", "\\u1A65", "\\u1A66", "\\u1A67", "\\u1A68", "\\u1A69",
   "\\u1A6A", "\\u1A6B", "\\u1A6C", "\\u1A73", "\\u1A74", "\\u1A75",
   "\\u1A76", "\\u1A77", "\\u1A78", "\\u1A79", "\\u1A7A", "\\u1A7B",
   "\\u1A7C", "\\u1A7F", "ᪧ", "᪰", "᪱", "᪲", "᪳", "᪴", "᪵", "᪶", "᪷", "᪸",
   "᪹", "᪺", "᪻", "᪼", "᪽", "᪾", "ᪿ", "ᫀ", "᫁", "᫂", "᫃", "᫄", "᫅", "᫆", "᫇",
   "᫈", "᫉", "᫊", "᫋", "ᫌ", "ᫍ", "ᫎ", "᫏", "᫐", "᫑", "᫒", "᫓", "᫔", "᫕", "᫖",
   "᫗", "᫘", "᫙", "᫚", "᫛", "᫜", "᫝", "᫠", "᫡", "᫢", "᫣", "᫤", "᫥", "᫦", "᫧",
   "᫨", "᫩", "᫪", "᫫", "\\u1B00", "\\u1B01", "\\u1B02", "\\u1B03", "\\u1B34",
   "\\u1B36", "\\u1B37", "\\u1B38", "\\u1B39", "\\u1B3A", "\\u1B3C",
   "\\u1B42", "\\u1B6B", "\\u1B6C", "\\u1B6D", "\\u1B6E", "\\u1B6F",
   "\\u1B70", "\\u1B71", "\\u1B72", "\\u1B73", "ᮀ", "ᮁ", "ᮢ", "ᮣ", "ᮤ", "ᮥ",
   "ᮨ", "ᮩ", "᮫", "ᮬ", "ᮭ", "᯦", "ᯨ", "ᯩ", "ᯭ", "ᯯ", "ᯰ", "ᯱ", "\\u1C2C",
   "\\u1C2D", "\\u1C2E", "\\u1C2F", "\\u1C30", "\\u1C31", "\\u1C32",
   "\\u1C33", "\\u1C36", "\\u1C37", "\\u1C78", "\\u1C79", "\\u1C7A",
   "\\u1C7B", "\\u1C7C", "\\u1C7D", "᳐", "᳑", "᳒", "᳔", "᳕", "᳖", "᳗", "᳘",
   "᳙", "᳚", "᳛", "᳜", "᳝", "᳞", "᳟", "᳠", "᳢", "᳣", "᳤", "᳥", "᳦", "᳧", "᳨",
   "᳭", "᳴", "᳸", "᳹", "\\u1D2C", "\\u1D2D", "\\u1D2E", "\\u1D2F", "\\u1D30",
   "\\u1D31", "\\u1D32", "\\u1D33", "\\u1D34", "\\u1D35", "\\u1D36",
   "\\u1D37", "\\u1D38", "\\u1D39", "\\u1D3A", "\\u1D3B", "\\u1D3C",
   "\\u1D3D", "\\u1D3E", "\\u1D3F", "\\u1D40", "\\u1D41", "\\u1D42",
   "\\u1D43", "\\u1D44", "\\u1D45", "\\u1D46", "\\u1D47", "\\u1D48",
   "\\u1D49", "\\u1D4A", "\\u1D4B", "\\u1D4C", "\\u1D4D", "\\u1D4E",
   "\\u1D4F", "\\u1D50", "\\u1D51", "\\u1D52", "\\u1D53", "\\u1D54",
   "\\u1D55", "\\u1D56", "\\u1D57", "\\u1D58", "\\u1D59", "\\u1D5A",
   "\\u1D5B", "\\u1D5C", "\\u1D5D", "\\u1D5E", "\\u1D5F", "\\u1D60",
   "\\u1D61", "\\u1D62", "\\u1D63", "\\u1D64", "\\u1D65", "\\u1D66",
   "\\u1D67", "\\u1D68", "\\u1D69", "\\u1D6A", "\\u1D78", "ᶛ", "ᶜ", "ᶝ", "ᶞ",
   "ᶟ", "ᶠ", "ᶡ", "ᶢ", "ᶣ", "ᶤ", "ᶥ", "ᶦ", "ᶧ", "ᶨ", "ᶩ", "ᶪ", "ᶫ", "ᶬ", "ᶭ",
   "ᶮ", "ᶯ", "ᶰ", "ᶱ", "ᶲ", "ᶳ", "ᶴ", "ᶵ", "ᶶ", "ᶷ", "ᶸ", "ᶹ", "ᶺ", "ᶻ", "ᶼ",
   "ᶽ", "ᶾ", "ᶿ", "᷀", "᷁", "᷂", "᷃", "᷄", "᷅", "᷆", "᷇", "᷈", "᷉", "᷊", "᷋",
   "᷌", "᷍", "᷎", "᷏", "᷐", "᷑", "᷒", "ᷓ", "ᷔ", "ᷕ", "ᷖ", "ᷗ", "ᷘ", "ᷙ", "ᷚ",
   "ᷛ", "ᷜ", "ᷝ", "ᷞ", "ᷟ", "ᷠ", "ᷡ", "ᷢ", "ᷣ", "ᷤ", "ᷥ", "ᷦ", "ᷧ", "ᷨ", "ᷩ",
   "ᷪ", "ᷫ", "ᷬ", "ᷭ", "ᷮ", "ᷯ", "ᷰ", "ᷱ", "ᷲ", "ᷳ", "ᷴ", "᷵", "᷶", "᷷", "᷸",
   "᷹", "᷺", "᷻", "᷼", "᷽", "᷾", "᷿", "᾽", "᾿", "῀", "῁", "῍", "῎", "῏", "῝",
   "῞", "῟", "῭", "΅", "`", "´", "῾", "\\u200B", "\\u200C", "\\u200D",
   "\\u200E", "\\u200F", "\\u2018", "\\u2019", "\\u2024", "\\u2027",
   "\\u202A", "\\u202B", "\\u202C", "\\u202D", "\\u202E", "\\u2060",
   "\\u2061", "\\u2062", "\\u2063", "\\u2064", "\\u2066", "\\u2067",
   "\\u2068", "\\u2069", "\\u206A", "\\u206B", "\\u206C", "\\u206D",
   "\\u206E", "\\u206F", "\\u2071", "\\u207F", "ₐ", "ₑ", "ₒ", "ₓ", "ₔ", "ₕ",
   "ₖ", "ₗ", "ₘ", "ₙ", "ₚ", "ₛ", "ₜ", "⃐", "⃑", "⃒", "⃓", "⃔", "⃕", "⃖", "⃗",
   "⃘", "⃙", "⃚", "⃛", "⃜", "⃝", "⃞", "⃟", "⃠", "⃡", "⃢", "⃣", "⃤", "⃥", "⃦",
   "⃧", "⃨", "⃩", "⃪", "⃫", "⃬", "⃭", "⃮", "⃯", "⃰", "\\u2C7C", "\\u2C7D",
   "⳯", "⳰", "⳱", "\\u2D6F", "\\u2D7F", "ⷠ", "ⷡ", "ⷢ", "ⷣ", "ⷤ", "ⷥ", "ⷦ",
   "ⷧ", "ⷨ", "ⷩ", "ⷪ", "ⷫ", "ⷬ", "ⷭ", "ⷮ", "ⷯ", "ⷰ", "ⷱ", "ⷲ", "ⷳ", "ⷴ", "ⷵ",
   "ⷶ", "ⷷ", "ⷸ", "ⷹ", "ⷺ", "ⷻ", "ⷼ", "ⷽ", "ⷾ", "ⷿ", "\\u2E2F", "\\u3005",
   "\\u302A", "\\u302B", "\\u302C", "\\u302D", "\\u3031", "\\u3032",
   "\\u3033", "\\u3034", "\\u3035", "\\u303B", "゙", "゚", "゛", "゜", "ゝ", "ゞ",
   "ー", "ヽ", "ヾ", "\\uA015", "ꓸ", "ꓹ", "ꓺ", "ꓻ", "ꓼ", "ꓽ", "\\uA60C",
   "\\uA66F", "\\uA670", "\\uA671", "\\uA672", "\\uA674", "\\uA675",
   "\\uA676", "\\uA677", "\\uA678", "\\uA679", "\\uA67A", "\\uA67B",
   "\\uA67C", "\\uA67D", "\\uA67F", "ꚜ", "ꚝ", "ꚞ", "ꚟ", "꛰", "꛱", "\\uA700",
   "\\uA701", "\\uA702", "\\uA703", "\\uA704", "\\uA705", "\\uA706",
   "\\uA707", "\\uA708", "\\uA709", "\\uA70A", "\\uA70B", "\\uA70C",
   "\\uA70D", "\\uA70E", "\\uA70F", "\\uA710", "\\uA711", "\\uA712",
   "\\uA713", "\\uA714", "\\uA715", "\\uA716", "\\uA717", "\\uA718",
   "\\uA719", "\\uA71A", "\\uA71B", "\\uA71C", "\\uA71D", "\\uA71E",
   "\\uA71F", "\\uA720", "\\uA721", "\\uA770", "ꞈ", "꞉", "꞊", "꟱", "ꟲ", "ꟳ",
   "ꟴ", "ꟸ", "ꟹ", "\\uA802", "\\uA806", "\\uA80B", "\\uA825", "\\uA826",
   "\\uA82C", "꣄", "ꣅ", "꣠", "꣡", "꣢", "꣣", "꣤", "꣥", "꣦", "꣧", "꣨", "꣩", "꣪",
   "꣫", "꣬", "꣭", "꣮", "꣯", "꣰", "꣱", "ꣿ", "\\uA926", "\\uA927", "\\uA928",
   "\\uA929", "\\uA92A", "\\uA92B", "\\uA92C", "\\uA92D", "\\uA947",
   "\\uA948", "\\uA949", "\\uA94A", "\\uA94B", "\\uA94C", "\\uA94D",
   "\\uA94E", "\\uA94F", "\\uA950", "\\uA951", "ꦀ", "ꦁ", "ꦂ", "꦳", "ꦶ", "ꦷ",
   "ꦸ", "ꦹ", "ꦼ", "ꦽ", "ꧏ", "ꧥ", "ꧦ", "\\uAA29", "\\uAA2A", "\\uAA2B",
   "\\uAA2C", "\\uAA2D", "\\uAA2E", "\\uAA31", "\\uAA32", "\\uAA35",
   "\\uAA36", "\\uAA43", "\\uAA4C", "\\uAA70", "\\uAA7C", "ꪰ", "ꪲ", "ꪳ", "ꪴ",
   "ꪷ", "ꪸ", "ꪾ", "꪿", "꫁", "ꫝ", "ꫬ", "ꫭ", "ꫳ", "ꫴ", "꫶", "\\uAB5B",
   "\\uAB5C", "\\uAB5D", "\\uAB5E", "\\uAB5F", "\\uAB69", "\\uAB6A",
   "\\uAB6B", "ꯥ", "ꯨ", "꯭", "\\uFB1E", "﮲", "﮳", "﮴", "﮵", "﮶", "﮷", "﮸",
   "﮹", "﮺", "﮻", "﮼", "﮽", "﮾", "﮿", "﯀", "﯁", "﯂", "\\uFE00", "\\uFE01",
   "\\uFE02", "\\uFE03", "\\uFE04", "\\uFE05", "\\uFE06", "\\uFE07",
   "\\uFE08", "\\uFE09", "\\uFE0A", "\\uFE0B", "\\uFE0C", "\\uFE0D",
   "\\uFE0E", "\\uFE0F", "\\uFE13", "\\uFE20", "\\uFE21", "\\uFE22",
   "\\uFE23", "\\uFE24", "\\uFE25", "\\uFE26", "\\uFE27", "\\uFE28",
   "\\uFE29", "\\uFE2A", "\\uFE2B", "\\uFE2C", "\\uFE2D", "\\uFE2E",
   "\\uFE2F", "\\uFE52", "\\uFE55", "﻿", "\\uFF07", "\\uFF0E", "\\uFF1A",
   "\\uFF3E", "\\uFF40", "\\uFF70", "ﾞ", "ﾟ", "￣", "￹", "￺", "￻"}

\* The same beyond U+FFFF
AstralCaseIgnorable ==
  {<<"\\uD800", "\\uDDFD">>, <<"\\uD800", "\\uDEE0">>,
   <<"\\uD800", "\\uDF76">>, <<"\\uD800", "\\uDF77">>,
   <<"\\uD800", "\\uDF78">>, <<"\\uD800", "\\uDF79">>,
   <<"\\uD800", "\\uDF7A">>, <<"\\uD801", "\\uDF80">>,
   <<"\\uD801", "\\uDF81">>, <<"\\uD801", "\\uDF82">>,
   <<"\\uD801", "\\uDF83">>, <<"\\uD801", "\\uDF84">>,
   <<"\\uD801", "\\uDF85">>, <<"\\uD801", "\\uDF87">>,
   <<"\\uD801", "\\uDF88">>, <<"\\uD801", "\\uDF89">>,
   <<"\\uD801", "\\uDF8A">>, <<"\\uD801", "\\uDF8B">>,
   <<"\\uD801", "\\uDF8C">>, <<"\\uD801", "\\uDF8D">>,
   <<"\\uD801", "\\uDF8E">>, <<"\\uD801", "\\uDF8F">>,
   <<"\\uD801", "\\uDF90">>, <<"\\uD801", "\\uDF91">>,
   <<"\\uD801", "\\uDF92">>, <<"\\uD801", "\\uDF93">>,
   <<"\\uD801", "\\uDF94">>, <<"\\uD801", "\\uDF95">>,
   <<"\\uD801", "\\uDF96">>, <<"\\uD801", "\\uDF97">>,
   <<"\\uD801", "\\uDF98">>, <<"\\uD801", "\\uDF99">>,
   <<"\\uD801", "\\uDF9A">>, <<"\\uD801", "\\uDF9B">>,
   <<"\\uD801", "\\uDF9C">>, <<"\\uD801", "\\uDF9D">>,
   <<"\\uD801", "\\uDF9E">>, <<"\\uD801", "\\uDF9F">>,
   <<"\\uD801", "\\uDFA0">>, <<"\\uD801", "\\uDFA1">>,
   <<"\\uD801", "\\uDFA2">>, <<"\\uD801", "\\uDFA3">>,
   <<"\\uD801", "\\uDFA4">>, <<"\\uD801", "\\uDFA5">>,
   <<"\\uD801", "\\uDFA6">>, <<"\\uD801", "\\uDFA7">>,
   <<"\\uD801", "\\uDFA8">>, <<"\\uD801", "\\uDFA9">>,
   <<"\\uD801", "\\uDFAA">>, <<"\\uD801", "\\uDFAB">>,
   <<"\\uD801", "\\uDFAC">>, <<"\\uD801", "\\uDFAD">>,
   <<"\\uD801", "\\uDFAE">>, <<"\\uD801", "\\uDFAF">>,
   <<"\\uD801", "\\uDFB0">>, <<"\\uD801", "\\uDFB2">>,
   <<"\\uD801", "\\uDFB3">>, <<"\\uD801", "\\uDFB4">>,
   <<"\\uD801", "\\uDFB5">>, <<"\\uD801", "\\uDFB6">>,
   <<"\\uD801", "\\uDFB7">>, <<"\\uD801", "\\uDFB8">>,
   <<"\\uD801", "\\uDFB9">>, <<"\\uD801", "\\uDFBA">>,
   <<"\\uD802", "\\uDE01">>, <<"\\uD802", "\\uDE02">>,
   <<"\\uD802", "\\uDE03">>, <<"\\uD802", "\\uDE05">>,
   <<"\\uD802", "\\uDE06">>, <<"\\uD802", "\\uDE0C">>,
   <<"\\uD802", "\\uDE0D">>, <<"\\uD802", "\\uDE0E">>,
   <<"\\uD802", "\\uDE0F">>, <<"\\uD802", "\\uDE38">>,
   <<"\\uD802", "\\uDE39">>, <<"\\uD802", "\\uDE3A">>,
   <<"\\uD802", "\\uDE3F">>, <<"\\uD802", "\\uDEE5">>,
   <<"\\uD802", "\\uDEE6">>, <<"\\uD803", "\\uDD24">>,
   <<"\\uD803", "\\uDD25">>, <<"\\uD803", "\\uDD26">>,
   <<"\\uD803", "\\uDD27">>, <<"\\uD803", "\\uDD4E">>,
   <<"\\uD803", "\\uDD69">>, <<"\\uD803", "\\uDD6A">>,
   <<"\\uD803", "\\uDD6B">>, <<"\\uD803", "\\uDD6C">>,
   <<"\\uD803", "\\uDD6D">>, <<"\\uD803", "\\uDD6F">>,
   <<"\\uD803", "\\uDEAB">>, <<"\\uD803", "\\uDEAC">>,
   <<"\\uD803", "\\uDEC5">>, <<"\\uD803", "\\uDEFA">>,
   <<"\\uD803", "\\uDEFB">>, <<"\\uD803", "\\uDEFC">>,
   <<"\\uD803", "\\uDEFD">>, <<"\\uD803", "\\uDEFE">>,
   <<"\\uD803", "\\uDEFF">>, <<"\\uD803", "\\uDF46">>,
   <<"\\uD803", "\\uDF47">>, <<"\\uD803", "\\uDF48">>,
   <<"\\uD803", "\\uDF49">>, <<"\\uD803", "\\uDF4A">>,
   <<"\\uD803", "\\uDF4B">>, <<"\\uD803", "\\uDF4C">>,
   <<"\\uD803", "\\uDF4D">>, <<"\\uD803", "\\uDF4E">>,
   <<"\\uD803", "\\uDF4F">>, <<"\\uD803", "\\uDF50">>,
   <<"\\uD803", "\\uDF82">>, <<"\\uD803", "\\uDF83">>,
   <<"\\uD803", "\\uDF84">>, <<"\\uD803", "\\uDF85">>,
   <<"\\uD804", "\\uDC01">>, <<"\\uD804", "\\uDC38">>,
   <<"\\uD804", "\\uDC39">>, <<"\\uD804", "\\uDC3A">>,
   <<"\\uD804", "\\uDC3B">>, <<"\\uD804", "\\uDC3C">>,
   <<"\\uD804", "\\uDC3D">>, <<"\\uD804", "\\uDC3E">>,
   <<"\\uD804", "\\uDC3F">>, <<"\\uD804", "\\uDC40">>,
   <<"\\uD804", "\\uDC41">>, <<"\\uD804", "\\uDC42">>,
   <<"\\uD804", "\\uDC43">>, <<"\\uD804", "\\uDC44">>,
   <<"\\uD804", "\\uDC45">>, <<"\\uD804", "\\uDC46">>,
   <<"\\uD804", "\\uDC70">>, <<"\\uD804", "\\uDC73">>,
   <<"\\uD804", "\\uDC74">>, <<"\\uD804", "\\uDC7F">>,
   <<"\\uD804", "\\uDC80">>, <<"\\uD804", "\\uDC81">>,
   <<"\\uD804", "\\uDCB3">>, <<"\\uD804", "\\uDCB4">>,
   <<"\\uD804", "\\uDCB5">>, <<"\\uD804", "\\uDCB6">>,
   <<"\\uD804", "\\uDCB9">>, <<"\\uD804", "\\uDCBA">>,
   <<"\\uD804", "\\uDCBD">>, <<"\\uD804", "\\uDCC2">>,
   <<"\\uD804", "\\uDCCD">>, <<"\\uD804", "\\uDD00">>,
   <<"\\uD804", "\\uDD01">>, <<"\\uD804", "\\uDD02">>,
   <<"\\uD804", "\\uDD27">>, <<"\\uD804", "\\uDD28">>,
   <<"\\uD804", "\\uDD29">>, <<"\\uD804", "\\uDD2A">>,
   <<"\\uD804", "\\uDD2B">>, <<"\\uD804", "\\uDD2D">>,
   <<"\\uD804", "\\uDD2E">>, <<"\\uD804", "\\uDD2F">>,
   <<"\\uD804", "\\uDD30">>, <<"\\uD804", "\\uDD31">>,
   <<"\\uD804", "\\uDD32">>, <<"\\uD804", "\\uDD33">>,
   <<"\\uD804", "\\uDD34">>, <<"\\uD804", "\\uDD73">>,
   <<"\\uD804", "\\uDD80">>, <<"\\uD804", "\\uDD81">>,
   <<"\\uD804", "\\uDDB6">>, <<"\\uD804", "\\uDDB7">>,
   <<"\\uD804", "\\uDDB8">>, <<"\\uD804", "\\uDDB9">>,
   <<"\\uD804", "\\uDDBA">>, <<"\\uD804", "\\uDDBB">>,
   <<"\\uD804", "\\uDDBC">>, <<"\\uD804", "\\uDDBD">>,
   <<"\\uD804", "\\uDDBE">>, <<"\\uD804", "\\uDDC9">>,
   <<"\\uD804", "\\uDDCA">>, <<"\\uD804", "\\uDDCB">>,
   <<"\\uD804", "\\uDDCC">>, <<"\\uD804", "\\uDDCF">>,
   <<"\\uD804", "\\uDE2F">>, <<"\\uD804", "\\uDE30">>,
   <<"\\uD804", "\\uDE31">>, <<"\\uD804", "\\uDE34">>,
   <<"\\uD804", "\\uDE36">>, <<"\\uD804", "\\uDE37">>,
   <<"\\uD804", "\\uDE3E">>, <<"\\uD804", "\\uDE41">>,
   <<"\\uD804", "\\uDEDF">>, <<"\\uD804", "\\uDEE3">>,
   <<"\\uD804", "\\uDEE4">>, <<"\\uD804", "\\uDEE5">>,
   <<"\\uD804", "\\uDEE6">>, <<"\\uD804", "\\uDEE7">>,
   <<"\\uD804", "\\uDEE8">>, <<"\\uD804", "\\uDEE9">>,
   <<"\\uD804", "\\uDEEA">>, <<"\\uD804", "\\uDF00">>,
   <<"\\uD804", "\\uDF01">>, <<"\\uD804", "\\uDF3B">>,
   <<"\\uD804", "\\uDF3C">>, <<"\\uD804", "\\uDF40">>,
   <<"\\uD804", "\\uDF66">>, <<"\\uD804", "\\uDF67">>,
   <<"\\uD804", "\\uDF68">>, <<"\\uD804", "\\uDF69">>,
   <<"\\uD804", "\\uDF6A">>, <<"\\uD804", "\\uDF6B">>,
   <<"\\uD804", "\\uDF6C">>, <<"\\uD804", "\\uDF70">>,
   <<"\\uD804", "\\uDF71">>, <<"\\uD804", "\\uDF72">>,
   <<"\\uD804", "\\uDF73">>, <<"\\uD804", "\\uDF74">>,
   <<"\\uD804", "\\uDFBB">>, <<"\\uD804", "\\uDFBC">>,
   <<"\\uD804", "\\uDFBD">>, <<"\\uD804", "\\uDFBE">>,
   <<"\\uD804", "\\uDFBF">>, <<"\\uD804", "\\uDFC0">>,
   <<"\\uD804", "\\uDFCE">>, <<"\\uD804", "\\uDFD0">>,
   <<"\\uD804", "\\uDFD2">>, <<"\\uD804", "\\uDFE1">>,
   <<"\\uD804", "\\uDFE2">>, <<"\\uD805", "\\uDC38">>,
   <<"\\uD805", "\\uDC39">>, <<"\\uD805", "\\uDC3A">>,
   <<"\\uD805", "\\uDC3B">>, <<"\\uD805", "\\uDC3C">>,
   <<"\\uD805", "\\uDC3D">>, <<"\\uD805", "\\uDC3E">>,
   <<"\\uD805", "\\uDC3F">>, <<"\\uD805", "\\uDC42">>,
   <<"\\uD805", "\\uDC43">>, <<"\\uD805", "\\uDC44">>,
   <<"\\uD805", "\\uDC46">>, <<"\\uD805", "\\uDC5E">>,
   <<"\\uD805", "\\uDCB3">>, <<"\\uD805", "\\uDCB4">>,
   <<"\\uD805", "\\uDCB5">>, <<"\\uD805", "\\uDCB6">>,
   <<"\\uD805", "\\uDCB7">>, <<"\\uD805", "\\uDCB8">>,
   <<"\\uD805", "\\uDCBA">>, <<"\\uD805", "\\uDCBF">>,
   <<"\\uD805", "\\uDCC0">>, <<"\\uD805", "\\uDCC2">>,
   <<"\\uD805", "\\uDCC3">>, <<"\\uD805", "\\uDDB2">>,
   <<"\\uD805", "\\uDDB3">>, <<"\\uD805", "\\uDDB4">>,
   <<"\\uD805", "\\uDDB5">>, <<"\\uD805", "\\uDDBC">>,
   <<"\\uD805", "\\uDDBD">>, <<"\\uD805", "\\uDDBF">>,
   <<"\\uD805", "\\uDDC0">>, <<"\\uD805", "\\uDDDC">>,
   <<"\\uD805", "\\uDDDD">>, <<"\\uD805", "\\uDE33">>,
   <<"\\uD805", "\\uDE34">>, <<"\\uD805", "\\uDE35">>,
   <<"\\uD805", "\\uDE36">>, <<"\\uD805", "\\uDE37">>,
   <<"\\uD805", "\\uDE38">>, <<"\\uD805", "\\uDE39">>,
   <<"\\uD805", "\\uDE3A">>, <<"\\uD805", "\\uDE3D">>,
   <<"\\uD805", "\\uDE3F">>, <<"\\uD805", "\\uDE40">>,
   <<"\\uD805", "\\uDEAB">>, <<"\\uD805", "\\uDEAD">>,
   <<"\\uD805", "\\uDEB0">>, <<"\\uD805", "\\uDEB1">>,
   <<"\\uD805", "\\uDEB2">>, <<"\\uD805", "\\uDEB3">>,
   <<"\\uD805", "\\uDEB4">>, <<"\\uD805", "\\uDEB5">>,
   <<"\\uD805", "\\uDEB7">>, <<"\\uD805", "\\uDF1D">>,
   <<"\\uD805", "\\uDF1F">>, <<"\\uD805", "\\uDF22">>,
   <<"\\uD805", "\\uDF23">>, <<"\\uD805", "\\uDF24">>,
   <<"\\uD805", "\\uDF25">>, <<"\\uD805", "\\uDF27">>,
   <<"\\uD805", "\\uDF28">>, <<"\\uD805", "\\uDF29">>,
   <<"\\uD805", "\\uDF2A">>, <<"\\uD805", "\\uDF2B">>,
   <<"\\uD806", "\\uDC2F">>, <<"\\uD806", "\\uDC30">>,
   <<"\\uD806", "\\uDC31">>, <<"\\uD806", "\\uDC32">>,
   <<"\\uD806", "\\uDC33">>, <<"\\uD806", "\\uDC34">>,
   <<"\\uD806", "\\uDC35">>, <<"\\uD806", "\\uDC36">>,
   <<"\\uD806", "\\uDC37">>, <<"\\uD806", "\\uDC39">>,
   <<"\\uD806", "\\uDC3A">>, <<"\\uD806", "\\uDD3B">>,
   <<"\\uD806", "\\uDD3C">>, <<"\\uD806", "\\uDD3E">>,
   <<"\\uD806", "\\uDD43">>, <<"\\uD806", "\\uDDD4">>,
   <<"\\uD806", "\\uDDD5">>, <<"\\uD806", "\\uDDD6">>,
   <<"\\uD806", "\\uDDD7">>, <<"\\uD806", "\\uDDDA">>,
   <<"\\uD806", "\\uDDDB">>, <<"\\uD806", "\\uDDE0">>,
   <<"\\uD806", "\\uDE01">>, <<"\\uD806", "\\uDE02">>,
   <<"\\uD806", "\\uDE03">>, <<"\\uD806", "\\uDE04">>,
   <<"\\uD806", "\\uDE05">>, <<"\\uD806", "\\uDE06">>,
   <<"\\uD806", "\\uDE07">>, <<"\\uD806", "\\uDE08">>,
   <<"\\uD806", "\\uDE09">>, <<"\\uD806", "\\uDE0A">>,
   <<"\\uD806", "\\uDE33">>, <<"\\uD806", "\\uDE34">>,
   <<"\\uD806", "\\uDE35">>, <<"\\uD806", "\\uDE36">>,
   <<"\\uD806", "\\uDE37">>, <<"\\uD806", "\\uDE38">>,
   <<"\\uD806", "\\uDE3B">>, <<"\\uD806", "\\uDE3C">>,
   <<"\\uD806", "\\uDE3D">>, <<"\\uD806", "\\uDE3E">>,
   <<"\\uD806", "\\uDE47">>, <<"\\uD806", "\\uDE51">>,
   <<"\\uD806", "\\uDE52">>, <<"\\uD806", "\\uDE53">>,
   <<"\\uD806", "\\uDE54">>, <<"\\uD806", "\\uDE55">>,
   <<"\\uD806", "\\uDE56">>, <<"\\uD806", "\\uDE59">>,
   <<"\\uD806", "\\uDE5A">>, <<"\\uD806", "\\uDE5B">>,
   <<"\\uD806", "\\uDE8A">>, <<"\\uD806", "\\uDE8B">>,
   <<"\\uD806", "\\uDE8C">>, <<"\\uD806", "\\uDE8D">>,
   <<"\\uD806", "\\uDE8E">>, <<"\\uD806", "\\uDE8F">>,
   <<"\\uD806", "\\uDE90">>, <<"\\uD806", "\\uDE91">>,
   <<"\\uD806", "\\uDE92">>, <<"\\uD806", "\\uDE93">>,
   <<"\\uD806", "\\uDE94">>, <<"\\uD806", "\\uDE95">>,
   <<"\\uD806", "\\uDE96">>, <<"\\uD806", "\\uDE98">>,
   <<"\\uD806", "\\uDE99">>, <<"\\uD806", "\\uDF60">>,
   <<"\\uD806", "\\uDF62">>, <<"\\uD806", "\\uDF63">>,
   <<"\\uD806", "\\uDF64">>, <<"\\uD806", "\\uDF66">>,
   <<"\\uD807", "\\uDC30">>, <<"\\uD807", "\\uDC31">>,
   <<"\\uD807", "\\uDC32">>, <<"\\uD807", "\\uDC33">>,
   <<"\\uD807", "\\uDC34">>, <<"\\uD807", "\\uDC35">>,
   <<"\\uD807", "\\uDC36">>, <<"\\uD807", "\\uDC38">>,
   <<"\\uD807", "\\uDC39">>, <<"\\uD807", "\\uDC3A">>,
   <<"\\uD807", "\\uDC3B">>, <<"\\uD807", "\\uDC3C">>,
   <<"\\uD807", "\\uDC3D">>, <<"\\uD807", "\\uDC3F">>,
   <<"\\uD807", "\\uDC92">>, <<"\\uD807", "\\uDC93">>,
   <<"\\uD807", "\\uDC94">>, <<"\\uD807", "\\uDC95">>,
   <<"\\uD807", "\\uDC96">>, <<"\\uD807", "\\uDC97">>,
   <<"\\uD807", "\\uDC98">>, <<"\\uD807", "\\uDC99">>,
   <<"\\uD807", "\\uDC9A">>, <<"\\uD807", "\\uDC9B">>,
   <<"\\uD807", "\\uDC9C">>, <<"\\uD807", "\\uDC9D">>,
   <<"\\uD807", "\\uDC9E">>, <<"\\uD807", "\\uDC9F">>,
   <<"\\uD807", "\\uDCA0">>, <<"\\uD807", "\\uDCA1">>,
   <<"\\uD807", "\\uDCA2">>, <<"\\uD807", "\\uDCA3">>,
   <<"\\uD807", "\\uDCA4">>, <<"\\uD807", "\\uDCA5">>,
   <<"\\uD807", "\\uDCA6">>, <<"\\uD807", "\\uDCA7">>,
   <<"\\uD807", "\\uDCAA">>, <<"\\uD807", "\\uDCAB">>,
   <<"\\uD807", "\\uDCAC">>, <<"\\uD807", "\\uDCAD">>,
   <<"\\uD807", "\\uDCAE">>, <<"\\uD807", "\\uDCAF">>,
   <<"\\uD807", "\\uDCB0">>, <<"\\uD807", "\\uDCB2">>,
   <<"\\uD807", "\\uDCB3">>, <<"\\uD807", "\\uDCB5">>,
   <<"\\uD807", "\\uDCB6">>, <<"\\uD807", "\\uDD31">>,
   <<"\\uD807", "\\uDD32">>, <<"\\uD807", "\\uDD33">>,
   <<"\\uD807", "\\uDD34">>, <<"\\uD807", "\\uDD35">>,
   <<"\\uD807", "\\uDD36">>, <<"\\uD807", "\\uDD3A">>,
   <<"\\uD807", "\\uDD3C">>, <<"\\uD807", "\\uDD3D">>,
   <<"\\uD807", "\\uDD3F">>, <<"\\uD807", "\\uDD40">>,
   <<"\\uD807", "\\uDD41">>, <<"\\uD807", "\\uDD42">>,
   <<"\\uD807", "\\uDD43">>, <<"\\uD807", "\\uDD44">>,
   <<"\\uD807", "\\uDD45">>, <<"\\uD807", "\\uDD47">>,
   <<"\\uD807", "\\uDD90">>, <<"\\uD807", "\\uDD91">>,
   <<"\\uD807", "\\uDD95">>, <<"\\uD807", "\\uDD97">>,
   <<"\\uD807", "\\uDDD9">>, <<"\\uD807", "\\uDEF3">>,
   <<"\\uD807", "\\uDEF4">>, <<"\\uD807", "\\uDF00">>,
   <<"\\uD807", "\\uDF01">>, <<"\\uD807", "\\uDF36">>,
   <<"\\uD807", "\\uDF37">>, <<"\\uD807", "\\uDF38">>,
   <<"\\uD807", "\\uDF39">>, <<"\\uD807", "\\uDF3A">>,
   <<"\\uD807", "\\uDF40">>, <<"\\uD807", "\\uDF42">>,
   <<"\\uD807", "\\uDF5A">>, <<"\\uD80D", "\\uDC30">>,
   <<"\\uD80D", "\\uDC31">>, <<"\\uD80D", "\\uDC32">>,
   <<"\\uD80D", "\\uDC33">>, <<"\\uD80D", "\\uDC34">>,
   <<"\\uD80D", "\\uDC35">>, <<"\\uD80D", "\\uDC36">>,
   <<"\\uD80D", "\\uDC37">>, <<"\\uD80D", "\\uDC38">>,
   <<"\\uD80D", "\\uDC39">>, <<"\\uD80D", "\\uDC3A">>,
   <<"\\uD80D", "\\uDC3B">>, <<"\\uD80D", "\\uDC3C">>,
   <<"\\uD80D", "\\uDC3D">>, <<"\\uD80D", "\\uDC3E">>,
   <<"\\uD80D", "\\uDC3F">>, <<"\\uD80D", "\\uDC40">>,
   <<"\\uD80D", "\\uDC47">>, <<"\\uD80D", "\\uDC48">>,
   <<"\\uD80D", "\\uDC49">>, <<"\\uD80D", "\\uDC4A">>,
   <<"\\uD80D", "\\uDC4B">>, <<"\\uD80D", "\\uDC4C">>,
   <<"\\uD80D", "\\uDC4D">>, <<"\\uD80D", "\\uDC4E">>,
   <<"\\uD80D", "\\uDC4F">>, <<"\\uD80D", "\\uDC50">>,
   <<"\\uD80D", "\\uDC51">>, <<"\\uD80D", "\\uDC52">>,
   <<"\\uD80D", "\\uDC53">>, <<"\\uD80D", "\\uDC54">>,
   <<"\\uD80D", "\\uDC55">>, <<"\\uD818", "\\uDD1E">>,
   <<"\\uD818", "\\uDD1F">>, <<"\\uD818", "\\uDD20">>,
   <<"\\uD818", "\\uDD21">>, <<"\\uD818", "\\uDD22">>,
   <<"\\uD818", "\\uDD23">>, <<"\\uD818", "\\uDD24">>,
   <<"\\uD818", "\\uDD25">>, <<"\\uD818", "\\uDD26">>,
   <<"\\uD818", "\\uDD27">>, <<"\\uD818", "\\uDD28">>,
   <<"\\uD818", "\\uDD29">>, <<"\\uD818", "\\uDD2D">>,
   <<"\\uD818", "\\uDD2E">>, <<"\\uD818", "\\uDD2F">>,
   <<"\\uD81A", "\\uDEF0">>, <<"\\uD81A", "\\uDEF1">>,
   <<"\\uD81A", "\\uDEF2">>, <<"\\uD81A", "\\uDEF3">>,
   <<"\\uD81A", "\\uDEF4">>, <<"\\uD81A", "\\uDF30">>,
   <<"\\uD81A", "\\uDF31">>, <<"\\uD81A", "\\uDF32">>,
   <<"\\uD81A", "\\uDF33">>, <<"\\uD81A", "\\uDF34">>,
   <<"\\uD81A", "\\uDF35">>, <<"\\uD81A", "\\uDF36">>,
   <<"\\uD81A", "\\uDF40">>, <<"\\uD81A", "\\uDF41">>,
   <<"\\uD81A", "\\uDF42">>, <<"\\uD81A", "\\uDF43">>,
   <<"\\uD81B", "\\uDD40">>, <<"\\uD81B", "\\uDD41">>,
   <<"\\uD81B", "\\uDD42">>, <<"\\uD81B", "\\uDD6B">>,
   <<"\\uD81B", "\\uDD6C">>, <<"\\uD81B", "\\uDF4F">>,
   <<"\\uD81B", "\\uDF8F">>, <<"\\uD81B", "\\uDF90">>,
   <<"\\uD81B", "\\uDF91">>, <<"\\uD81B", "\\uDF92">>,
   <<"\\uD81B", "\\uDF93">>, <<"\\uD81B", "\\uDF94">>,
   <<"\\uD81B", "\\uDF95">>, <<"\\uD81B", "\\uDF96">>,
   <<"\\uD81B", "\\uDF97">>, <<"\\uD81B", "\\uDF98">>,
   <<"\\uD81B", "\\uDF99">>, <<"\\uD81B", "\\uDF9A">>,
   <<"\\uD81B", "\\uDF9B">>, <<"\\uD81B", "\\uDF9C">>,
   <<"\\uD81B", "\\uDF9D">>, <<"\\uD81B", "\\uDF9E">>,
   <<"\\uD81B", "\\uDF9F">>, <<"\\uD81B", "\\uDFE0">>,
   <<"\\uD81B", "\\uDFE1">>, <<"\\uD81B", "\\uDFE3">>,
   <<"\\uD81B", "\\uDFE4">>, <<"\\uD81B", "\\uDFF2">>,
   <<"\\uD81B", "\\uDFF3">>, <<"\\uD82B", "\\uDFF0">>,
   <<"\\uD82B", "\\uDFF1">>, <<"\\uD82B", "\\uDFF2">>,
   <<"\\uD82B", "\\uDFF3">>, <<"\\uD82B", "\\uDFF5">>,
   <<"\\uD82B", "\\uDFF6">>, <<"\\uD82B", "\\uDFF7">>,
   <<"\\uD82B", "\\uDFF8">>, <<"\\uD82B", "\\uDFF9">>,
   <<"\\uD82B", "\\uDFFA">>, <<"\\uD82B", "\\uDFFB">>,
   <<"\\uD82B", "\\uDFFD">>, <<"\\uD82B", "\\uDFFE">>,
   <<"\\uD82F", "\\uDC9D">>, <<"\\uD82F", "\\uDC9E">>,
   <<"\\uD82F", "\\uDCA0">>, <<"\\uD82F", "\\uDCA1">>,
   <<"\\uD82F", "\\uDCA2">>, <<"\\uD82F", "\\uDCA3">>,
   <<"\\uD833", "\\uDF00">>, <<"\\uD833", "\\uDF01">>,
   <<"\\uD833", "\\uDF02">>, <<"\\uD833", "\\uDF03">>,
   <<"\\uD833", "\\uDF04">>, <<"\\uD833", "\\uDF05">>,
   <<"\\uD833", "\\uDF06">>, <<"\\uD833", "\\uDF07">>,
   <<"\\uD833", "\\uDF08">>, <<"\\uD833", "\\uDF09">>,
   <<"\\uD833", "\\uDF0A">>, <<"\\uD833", "\\uDF0B">>,
   <<"\\uD833", "\\uDF0C">>, <<"\\uD833", "\\uDF0D">>,
   <<"\\uD833", "\\uDF0E">>, <<"\\uD833", "\\uDF0F">>,
   <<"\\uD833", "\\uDF10">>, <<"\\uD833", "\\uDF11">>,
   <<"\\uD833", "\\uDF12">>, <<"\\uD833", "\\uDF13">>,
   <<"\\uD833", "\\uDF14">>, <<"\\uD833", "\\uDF15">>,
   <<"\\uD833", "\\uDF16">>, <<"\\uD833", "\\uDF17">>,
   <<"\\uD833", "\\uDF18">>, <<"\\uD833", "\\uDF19">>,
   <<"\\uD833", "\\uDF1A">>, <<"\\uD833", "\\uDF1B">>,
   <<"\\uD833", "\\uDF1C">>, <<"\\uD833", "\\uDF1D">>,
   <<"\\uD833", "\\uDF1E">>, <<"\\uD833", "\\uDF1F">>,
   <<"\\uD833", "\\uDF20">>, <<"\\uD833", "\\uDF21">>,
   <<"\\uD833", "\\uDF22">>, <<"\\uD833", "\\uDF23">>,
   <<"\\uD833", "\\uDF24">>, <<"\\uD833", "\\uDF25">>,
   <<"\\uD833", "\\uDF26">>, <<"\\uD833", "\\uDF27">>,
   <<"\\uD833", "\\uDF28">>, <<"\\uD833", "\\uDF29">>,
   <<"\\uD833", "\\uDF2A">>, <<"\\uD833", "\\uDF2B">>,
   <<"\\uD833", "\\uDF2C">>, <<"\\uD833", "\\uDF2D">>,
   <<"\\uD833", "\\uDF30">>, <<"\\uD833", "\\uDF31">>,
   <<"\\uD833", "\\uDF32">>, <<"\\uD833", "\\uDF33">>,
   <<"\\uD833", "\\uDF34">>, <<"\\uD833", "\\uDF35">>,
   <<"\\uD833", "\\uDF36">>, <<"\\uD833", "\\uDF37">>,
   <<"\\uD833", "\\uDF38">>, <<"\\uD833", "\\uDF39">>,
   <<"\\uD833", "\\uDF3A">>, <<"\\uD833", "\\uDF3B">>,
   <<"\\uD833", "\\uDF3C">>, <<"\\uD833", "\\uDF3D">>,
   <<"\\uD833", "\\uDF3E">>, <<"\\uD833", "\\uDF3F">>,
   <<"\\uD833", "\\uDF40">>, <<"\\uD833", "\\uDF41">>,
   <<"\\uD833", "\\uDF42">>, <<"\\uD833", "\\uDF43">>,
   <<"\\uD833", "\\uDF44">>, <<"\\uD833", "\\uDF45">>,
   <<"\\uD833", "\\uDF46">>, <<"\\uD834", "\\uDD67">>,
   <<"\\uD834", "\\uDD68">>, <<"\\uD834", "\\uDD69">>,
   <<"\\uD834", "\\uDD73">>, <<"\\uD834", "\\uDD74">>,
   <<"\\uD834", "\\uDD75">>, <<"\\uD834", "\\uDD76">>,
   <<"\\uD834", "\\uDD77">>, <<"\\uD834", "\\uDD78">>,
   <<"\\uD834", "\\uDD79">>, <<"\\uD834", "\\uDD7A">>,
   <<"\\uD834", "\\uDD7B">>, <<"\\uD834", "\\uDD7C">>,
   <<"\\uD834", "\\uDD7D">>, <<"\\uD834", "\\uDD7E">>,
   <<"\\uD834", "\\uDD7F">>, <<"\\uD834", "\\uDD80">>,
   <<"\\uD834", "\\uDD81">>, <<"\\uD834", "\\uDD82">>,
   <<"\\uD834", "\\uDD85">>, <<"\\uD834", "\\uDD86">>,
   <<"\\uD834", "\\uDD87">>, <<"\\uD834", "\\uDD88">>,
   <<"\\uD834", "\\uDD89">>, <<"\\uD834", "\\uDD8A">>,
   <<"\\uD834", "\\uDD8B">>, <<"\\uD834", "\\uDDAA">>,
   <<"\\uD834", "\\uDDAB">>, <<"\\uD834", "\\uDDAC">>,
   <<"\\uD834", "\\uDDAD">>, <<"\\uD834", "\\uDE42">>,
   <<"\\uD834", "\\uDE43">>, <<"\\uD834", "\\uDE44">>,
   <<"\\uD836", "\\uDE00">>, <<"\\uD836", "\\uDE01">>,
   <<"\\uD836", "\\uDE02">>, <<"\\uD836", "\\uDE03">>,
   <<"\\uD836", "\\uDE04">>, <<"\\uD836", "\\uDE05">>,
   <<"\\uD836", "\\uDE06">>, <<"\\uD836", "\\uDE07">>,
   <<"\\uD836", "\\uDE08">>, <<"\\uD836", "\\uDE09">>,
   <<"\\uD836", "\\uDE0A">>, <<"\\uD836", "\\uDE0B">>,
   <<"\\uD836", "\\uDE0C">>, <<"\\uD836", "\\uDE0D">>,
   <<"\\uD836", "\\uDE0E">>, <<"\\uD836", "\\uDE0F">>,
   <<"\\uD836", "\\uDE10">>, <<"\\uD836", "\\uDE11">>,
   <<"\\uD836", "\\uDE12">>, <<"\\uD836", "\\uDE13">>,
   <<"\\uD836", "\\uDE14">>, <<"\\uD836", "\\uDE15">>,
   <<"\\uD836", "\\uDE16">>, <<"\\uD836", "\\uDE17">>,
   <<"\\uD836", "\\uDE18">>, <<"\\uD836", "\\uDE19">>,
   <<"\\uD836", "\\uDE1A">>, <<"\\uD836", "\\uDE1B">>,
   <<"\\uD836", "\\uDE1C">>, <<"\\uD836", "\\uDE1D">>,
   <<"\\uD836", "\\uDE1E">>, <<"\\uD836", "\\uDE1F">>,
   <<"\\uD836", "\\uDE20">>, <<"\\uD836", "\\uDE21">>,
   <<"\\uD836", "\\uDE22">>, <<"\\uD836", "\\uDE23">>,
   <<"\\uD836", "\\uDE24">>, <<"\\uD836", "\\uDE25">>,
   <<"\\uD836", "\\uDE26">>, <<"\\uD836", "\\uDE27">>,
   <<"\\uD836", "\\uDE28">>, <<"\\uD836", "\\uDE29">>,
   <<"\\uD836", "\\uDE2A">>, <<"\\uD836", "\\uDE2B">>,
   <<"\\uD836", "\\uDE2C">>, <<"\\uD836", "\\uDE2D">>,
   <<"\\uD836", "\\uDE2E">>, <<"\\uD836", "\\uDE2F">>,
   <<"\\uD836", "\\uDE30">>, <<"\\uD836", "\\uDE31">>,
   <<"\\uD836", "\\uDE32">>, <<"\\uD836", "\\uDE33">>,
   <<"\\uD836", "\\uDE34">>, <<"\\uD836", "\\uDE35">>,
   <<"\\uD836", "\\uDE36">>, <<"\\uD836", "\\uDE3B">>,
   <<"\\uD836", "\\uDE3C">>, <<"\\uD836", "\\uDE3D">>,
   <<"\\uD836", "\\uDE3E">>, <<"\\uD836", "\\uDE3F">>,
   <<"\\uD836", "\\uDE40">>, <<"\\uD836", "\\uDE41">>,
   <<"\\uD836", "\\uDE42">>, <<"\\uD836", "\\uDE43">>,
   <<"\\uD836", "\\uDE44">>, <<"\\uD836", "\\uDE45">>,
   <<"\\uD836", "\\uDE46">>, <<"\\uD836", "\\uDE47">>,
   <<"\\uD836", "\\uDE48">>, <<"\\uD836", "\\uDE49">>,
   <<"\\uD836", "\\uDE4A">>, <<"\\uD836", "\\uDE4B">>,
   <<"\\uD836", "\\uDE4C">>, <<"\\uD836", "\\uDE4D">>,
   <<"\\uD836", "\\uDE4E">>, <<"\\uD836", "\\uDE4F">>,
   <<"\\uD836", "\\uDE50">>, <<"\\uD836", "\\uDE51">>,
   <<"\\uD836", "\\uDE52">>, <<"\\uD836", "\\uDE53">>,
   <<"\\uD836", "\\uDE54">>, <<"\\uD836", "\\uDE55">>,
   <<"\\uD836", "\\uDE56">>, <<"\\uD836", "\\uDE57">>,
   <<"\\uD836", "\\uDE58">>, <<"\\uD836", "\\uDE59">>,
   <<"\\uD836", "\\uDE5A">>, <<"\\uD836", "\\uDE5B">>,
   <<"\\uD836", "\\uDE5C">>, <<"\\uD836", "\\uDE5D">>,
   <<"\\uD836", "\\uDE5E">>, <<"\\uD836", "\\uDE5F">>,
   <<"\\uD836", "\\uDE60">>, <<"\\uD836", "\\uDE61">>,
   <<"\\uD836", "\\uDE62">>, <<"\\uD836", "\\uDE63">>,
   <<"\\uD836", "\\uDE64">>, <<"\\uD836", "\\uDE65">>,
   <<"\\uD836", "\\uDE66">>, <<"\\uD836", "\\uDE67">>,
   <<"\\uD836", "\\uDE68">>, <<"\\uD836", "\\uDE69">>,
   <<"\\uD836", "\\uDE6A">>, <<"\\uD836", "\\uDE6B">>,
   <<"\\uD836", "\\uDE6C">>, <<"\\uD836", "\\uDE75">>,
   <<"\\uD836", "\\uDE84">>, <<"\\uD836", "\\uDE9B">>,
   <<"\\uD836", "\\uDE9C">>, <<"\\uD836", "\\uDE9D">>,
   <<"\\uD836", "\\uDE9E">>, <<"\\uD836", "\\uDE9F">>,
   <<"\\uD836", "\\uDEA1">>, <<"\\uD836", "\\uDEA2">>,
   <<"\\uD836", "\\uDEA3">>, <<"\\uD836", "\\uDEA4">>,
   <<"\\uD836", "\\uDEA5">>, <<"\\uD836", "\\uDEA6">>,
   <<"\\uD836", "\\uDEA7">>, <<"\\uD836", "\\uDEA8">>,
   <<"\\uD836", "\\uDEA9">>, <<"\\uD836", "\\uDEAA">>,
   <<"\\uD836", "\\uDEAB">>, <<"\\uD836", "\\uDEAC">>,
   <<"\\uD836", "\\uDEAD">>, <<"\\uD836", "\\uDEAE">>,
   <<"\\uD836", "\\uDEAF">>, <<"\\uD838", "\\uDC00">>,
   <<"\\uD838", "\\uDC01">>, <<"\\uD838", "\\uDC02">>,
   <<"\\uD838", "\\uDC03">>, <<"\\uD838", "\\uDC04">>,
   <<"\\uD838", "\\uDC05">>, <<"\\uD838", "\\uDC06">>,
   <<"\\uD838", "\\uDC08">>, <<"\\uD838", "\\uDC09">>,
   <<"\\uD838", "\\uDC0A">>, <<"\\uD838", "\\uDC0B">>,
   <<"\\uD838", "\\uDC0C">>, <<"\\uD838", "\\uDC0D">>,
   <<"\\uD838", "\\uDC0E">>, <<"\\uD838", "\\uDC0F">>,
   <<"\\uD838", "\\uDC10">>, <<"\\uD838", "\\uDC11">>,
   <<"\\uD838", "\\uDC12">>, <<"\\uD838", "\\uDC13">>,
   <<"\\uD838", "\\uDC14">>, <<"\\uD838", "\\uDC15">>,
   <<"\\uD838", "\\uDC16">>, <<"\\uD838", "\\uDC17">>,
   <<"\\uD838", "\\uDC18">>, <<"\\uD838", "\\uDC1B">>,
   <<"\\uD838", "\\uDC1C">>, <<"\\uD838", "\\uDC1D">>,
   <<"\\uD838", "\\uDC1E">>, <<"\\uD838", "\\uDC1F">>,
   <<"\\uD838", "\\uDC20">>, <<"\\uD838", "\\uDC21">>,
   <<"\\uD838", "\\uDC23">>, <<"\\uD838", "\\uDC24">>,
   <<"\\uD838", "\\uDC26">>, <<"\\uD838", "\\uDC27">>,
   <<"\\uD838", "\\uDC28">>, <<"\\uD838", "\\uDC29">>,
   <<"\\uD838", "\\uDC2A">>, <<"\\uD838", "\\uDC30">>,
   <<"\\uD838", "\\uDC31">>, <<"\\uD838", "\\uDC32">>,
   <<"\\uD838", "\\uDC33">>, <<"\\uD838", "\\uDC34">>,
   <<"\\uD838", "\\uDC35">>, <<"\\uD838", "\\uDC36">>,
   <<"\\uD838", "\\uDC37">>, <<"\\uD838", "\\uDC38">>,
   <<"\\uD838", "\\uDC39">>, <<"\\uD838", "\\uDC3A">>,
   <<"\\uD838", "\\uDC3B">>, <<"\\uD838", "\\uDC3C">>,
   <<"\\uD838", "\\uDC3D">>, <<"\\uD838", "\\uDC3E">>,
   <<"\\uD838", "\\uDC3F">>, <<"\\uD838", "\\uDC40">>,
   <<"\\uD838", "\\uDC41">>, <<"\\uD838", "\\uDC42">>,
   <<"\\uD838", "\\uDC43">>, <<"\\uD838", "\\uDC44">>,
   <<"\\uD838", "\\uDC45">>, <<"\\uD838", "\\uDC46">>,
   <<"\\uD838", "\\uDC47">>, <<"\\uD838", "\\uDC48">>,
   <<"\\uD838", "\\uDC49">>, <<"\\uD838", "\\uDC4A">>,
   <<"\\uD838", "\\uDC4B">>, <<"\\uD838", "\\uDC4C">>,
   <<"\\uD838", "\\uDC4D">>, <<"\\uD838", "\\uDC4E">>,
   <<"\\uD838", "\\uDC4F">>, <<"\\uD838", "\\uDC50">>,
   <<"\\uD838", "\\uDC51">>, <<"\\uD838", "\\uDC52">>,
   <<"\\uD838", "\\uDC53">>, <<"\\uD838", "\\uDC54">>,
   <<"\\uD838", "\\uDC55">>, <<"\\uD838", "\\uDC56">>,
   <<"\\uD838", "\\uDC57">>, <<"\\uD838", "\\uDC58">>,
   <<"\\uD838", "\\uDC59">>, <<"\\uD838", "\\uDC5A">>,
   <<"\\uD838", "\\uDC5B">>, <<"\\uD838", "\\uDC5C">>,
   <<"\\uD838", "\\uDC5D">>, <<"\\uD838", "\\uDC5E">>,
   <<"\\uD838", "\\uDC5F">>, <<"\\uD838", "\\uDC60">>,
   <<"\\uD838", "\\uDC61">>, <<"\\uD838", "\\uDC62">>,
   <<"\\uD838", "\\uDC63">>, <<"\\uD838", "\\uDC64">>,
   <<"\\uD838", "\\uDC65">>, <<"\\uD838", "\\uDC66">>,
   <<"\\uD838", "\\uDC67">>, <<"\\uD838", "\\uDC68">>,
   <<"\\uD838", "\\uDC69">>, <<"\\uD838", "\\uDC6A">>,
   <<"\\uD838", "\\uDC6B">>, <<"\\uD838", "\\uDC6C">>,
   <<"\\uD838", "\\uDC6D">>, <<"\\uD838", "\\uDC8F">>,
   <<"\\uD838", "\\uDD30">>, <<"\\uD838", "\\uDD31">>,
   <<"\\uD838", "\\uDD32">>, <<"\\uD838", "\\uDD33">>,
   <<"\\uD838", "\\uDD34">>, <<"\\uD838", "\\uDD35">>,
   <<"\\uD838", "\\uDD36">>, <<"\\uD838", "\\uDD37">>,
   <<"\\uD838", "\\uDD38">>, <<"\\uD838", "\\uDD39">>,
   <<"\\uD838", "\\uDD3A">>, <<"\\uD838", "\\uDD3B">>,
   <<"\\uD838", "\\uDD3C">>, <<"\\uD838", "\\uDD3D">>,
   <<"\\uD838", "\\uDEAE">>, <<"\\uD838", "\\uDEEC">>,
   <<"\\uD838", "\\uDEED">>, <<"\\uD838", "\\uDEEE">>,
   <<"\\uD838", "\\uDEEF">>, <<"\\uD839", "\\uDCEB">>,
   <<"\\uD839", "\\uDCEC">>, <<"\\uD839", "\\uDCED">>,
   <<"\\uD839", "\\uDCEE">>, <<"\\uD839", "\\uDCEF">>,
   <<"\\uD839", "\\uDDEE">>, <<"\\uD839", "\\uDDEF">>,
   <<"\\uD839", "\\uDEE3">>, <<"\\uD839", "\\uDEE6">>,
   <<"\\uD839", "\\uDEEE">>, <<"\\uD839", "\\uDEEF">>,
   <<"\\uD839", "\\uDEF5">>, <<"\\uD839", "\\uDEFF">>,
   <<"\\uD83A", "\\uDCD0">>, <<"\\uD83A", "\\uDCD1">>,
   <<"\\uD83A", "\\uDCD2">>, <<"\\uD83A", "\\uDCD3">>,
   <<"\\uD83A", "\\uDCD4">>, <<"\\uD83A", "\\uDCD5">>,
   <<"\\uD83A", "\\uDCD6">>, <<"\\uD83A", "\\uDD44">>,
   <<"\\uD83A", "\\uDD45">>, <<"\\uD83A", "\\uDD46">>,
   <<"\\uD83A", "\\uDD47">>, <<"\\uD83A", "\\uDD48">>,
   <<"\\uD83A", "\\uDD49">>, <<"\\uD83A", "\\uDD4A">>,
   <<"\\uD83A", "\\uDD4B">>, <<"\\uD83C", "\\uDFFB">>,
   <<"\\uD83C", "\\uDFFC">>, <<"\\uD83C", "\\uDFFD">>,
   <<"\\uD83C", "\\uDFFE">>, <<"\\uD83C", "\\uDFFF">>,
   <<"\\uDB40", "\\uDC01">>, <<"\\uDB40", "\\uDC20">>,
   <<"\\uDB40", "\\uDC21">>, <<"\\uDB40", "\\uDC22">>,
   <<"\\uDB40", "\\uDC23">>, <<"\\uDB40", "\\uDC24">>,
   <<"\\uDB40", "\\uDC25">>, <<"\\uDB40", "\\uDC26">>,
   <<"\\uDB40", "\\uDC27">>, <<"\\uDB40", "\\uDC28">>,
   <<"\\uDB40", "\\uDC29">>, <<"\\uDB40", "\\uDC2A">>,
   <<"\\uDB40", "\\uDC2B">>, <<"\\uDB40", "\\uDC2C">>,
   <<"\\uDB40", "\\uDC2D">>, <<"\\uDB40", "\\uDC2E">>,
   <<"\\uDB40", "\\uDC2F">>, <<"\\uDB40", "\\uDC30">>,
   <<"\\uDB40", "\\uDC31">>, <<"\\uDB40", "\\uDC32">>,
   <<"\\uDB40", "\\uDC33">>, <<"\\uDB40", "\\uDC34">>,
   <<"\\uDB40", "\\uDC35">>, <<"\\uDB40", "\\uDC36">>,
   <<"\\uDB40", "\\uDC37">>, <<"\\uDB40", "\\uDC38">>,
   <<"\\uDB40", "\\uDC39">>, <<"\\uDB40", "\\uDC3A">>,
   <<"\\uDB40", "\\uDC3B">>, <<"\\uDB40", "\\uDC3C">>,
   <<"\\uDB40", "\\uDC3D">>, <<"\\uDB40", "\\uDC3E">>,
   <<"\\uDB40", "\\uDC3F">>, <<"\\uDB40", "\\uDC40">>,
   <<"\\uDB40", "\\uDC41">>, <<"\\uDB40", "\\uDC42">>,
   <<"\\uDB40", "\\uDC43">>, <<"\\uDB40", "\\uDC44">>,
   <<"\\uDB40", "\\uDC45">>, <<"\\uDB40", "\\uDC46">>,
   <<"\\uDB40", "\\uDC47">>, <<"\\uDB40", "\\uDC48">>,
   <<"\\uDB40", "\\uDC49">>, <<"\\uDB40", "\\uDC4A">>,
   <<"\\uDB40", "\\uDC4B">>, <<"\\uDB40", "\\uDC4C">>,
   <<"\\uDB40", "\\uDC4D">>, <<"\\uDB40", "\\uDC4E">>,
   <<"\\uDB40", "\\uDC4F">>, <<"\\uDB40", "\\uDC50">>,
   <<"\\uDB40", "\\uDC51">>, <<"\\uDB40", "\\uDC52">>,
   <<"\\uDB40", "\\uDC53">>, <<"\\uDB40", "\\uDC54">>,
   <<"\\uDB40", "\\uDC55">>, <<"\\uDB40", "\\uDC56">>,
   <<"\\uDB40", "\\uDC57">>, <<"\\uDB40", "\\uDC58">>,
   <<"\\uDB40", "\\uDC59">>, <<"\\uDB40", "\\uDC5A">>,
   <<"\\uDB40", "\\uDC5B">>, <<"\\uDB40", "\\uDC5C">>,
   <<"\\uDB40", "\\uDC5D">>, <<"\\uDB40", "\\uDC5E">>,
   <<"\\uDB40", "\\uDC5F">>, <<"\\uDB40", "\\uDC60">>,
   <<"\\uDB40", "\\uDC61">>, <<"\\uDB40", "\\uDC62">>,
   <<"\\uDB40", "\\uDC63">>, <<"\\uDB40", "\\uDC64">>,
   <<"\\uDB40", "\\uDC65">>, <<"\\uDB40", "\\uDC66">>,
   <<"\\uDB40", "\\uDC67">>, <<"\\uDB40", "\\uDC68">>,
   <<"\\uDB40", "\\uDC69">>, <<"\\uDB40", "\\uDC6A">>,
   <<"\\uDB40", "\\uDC6B">>, <<"\\uDB40", "\\uDC6C">>,
   <<"\\uDB40", "\\uDC6D">>, <<"\\uDB40", "\\uDC6E">>,
   <<"\\uDB40", "\\uDC6F">>, <<"\\uDB40", "\\uDC70">>,
   <<"\\uDB40", "\\uDC71">>, <<"\\uDB40", "\\uDC72">>,
   <<"\\uDB40", "\\uDC73">>, <<"\\uDB40", "\\uDC74">>,
   <<"\\uDB40", "\\uDC75">>, <<"\\uDB40", "\\uDC76">>,
   <<"\\uDB40", "\\uDC77">>, <<"\\uDB40", "\\uDC78">>,
   <<"\\uDB40", "\\uDC79">>, <<"\\uDB40", "\\uDC7A">>,
   <<"\\uDB40", "\\uDC7B">>, <<"\\uDB40", "\\uDC7C">>,
   <<"\\uDB40", "\\uDC7D">>, <<"\\uDB40", "\\uDC7E">>,
   <<"\\uDB40", "\\uDC7F">>, <<"\\uDB40", "\\uDD00">>,
   <<"\\uDB40", "\\uDD01">>, <<"\\uDB40", "\\uDD02">>,
   <<"\\uDB40", "\\uDD03">>, <<"\\uDB40", "\\uDD04">>,
   <<"\\uDB40", "\\uDD05">>, <<"\\uDB40", "\\uDD06">>,
   <<"\\uDB40", "\\uDD07">>, <<"\\uDB40", "\\uDD08">>,
   <<"\\uDB40", "\\uDD09">>, <<"\\uDB40", "\\uDD0A">>,
   <<"\\uDB40", "\\uDD0B">>, <<"\\uDB40", "\\uDD0C">>,
   <<"\\uDB40", "\\uDD0D">>, <<"\\uDB40", "\\uDD0E">>,
   <<"\\uDB40", "\\uDD0F">>, <<"\\uDB40", "\\uDD10">>,
   <<"\\uDB40", "\\uDD11">>, <<"\\uDB40", "\\uDD12">>,
   <<"\\uDB40", "\\uDD13">>, <<"\\uDB40", "\\uDD14">>,
   <<"\\uDB40", "\\uDD15">>, <<"\\uDB40", "\\uDD16">>,
   <<"\\uDB40", "\\uDD17">>, <<"\\uDB40", "\\uDD18">>,
   <<"\\uDB40", "\\uDD19">>, <<"\\uDB40", "\\uDD1A">>,
   <<"\\uDB40", "\\uDD1B">>, <<"\\uDB40", "\\uDD1C">>,
   <<"\\uDB40", "\\uDD1D">>, <<"\\uDB40", "\\uDD1E">>,
   <<"\\uDB40", "\\uDD1F">>, <<"\\uDB40", "\\uDD20">>,
   <<"\\uDB40", "\\uDD21">>, <<"\\uDB40", "\\uDD22">>,
   <<"\\uDB40", "\\uDD23">>, <<"\\uDB40", "\\uDD24">>,
   <<"\\uDB40", "\\uDD25">>, <<"\\uDB40", "\\uDD26">>,
   <<"\\uDB40", "\\uDD27">>, <<"\\uDB40", "\\uDD28">>,
   <<"\\uDB40", "\\uDD29">>, <<"\\uDB40", "\\uDD2A">>,
   <<"\\uDB40", "\\uDD2B">>, <<"\\uDB40", "\\uDD2C">>,
   <<"\\uDB40", "\\uDD2D">>, <<"\\uDB40", "\\uDD2E">>,
   <<"\\uDB40", "\\uDD2F">>, <<"\\uDB40", "\\uDD30">>,
   <<"\\uDB40", "\\uDD31">>, <<"\\uDB40", "\\uDD32">>,
   <<"\\uDB40", "\\uDD33">>, <<"\\uDB40", "\\uDD34">>,
   <<"\\uDB40", "\\uDD35">>, <<"\\uDB40", "\\uDD36">>,
   <<"\\uDB40", "\\uDD37">>, <<"\\uDB40", "\\uDD38">>,
   <<"\\uDB40", "\\uDD39">>, <<"\\uDB40", "\\uDD3A">>,
   <<"\\uDB40", "\\uDD3B">>, <<"\\uDB40", "\\uDD3C">>,
   <<"\\uDB40", "\\uDD3D">>, <<"\\uDB40", "\\uDD3E">>,
   <<"\\uDB40", "\\uDD3F">>, <<"\\uDB40", "\\uDD40">>,
   <<"\\uDB40", "\\uDD41">>, <<"\\uDB40", "\\uDD42">>,
   <<"\\uDB40", "\\uDD43">>, <<"\\uDB40", "\\uDD44">>,
   <<"\\uDB40", "\\uDD45">>, <<"\\uDB40", "\\uDD46">>,
   <<"\\uDB40", "\\uDD47">>, <<"\\uDB40", "\\uDD48">>,
   <<"\\uDB40", "\\uDD49">>, <<"\\uDB40", "\\uDD4A">>,
   <<"\\uDB40", "\\uDD4B">>, <<"\\uDB40", "\\uDD4C">>,
   <<"\\uDB40", "\\uDD4D">>, <<"\\uDB40", "\\uDD4E">>,
   <<"\\uDB40", "\\uDD4F">>, <<"\\uDB40", "\\uDD50">>,
   <<"\\uDB40", "\\uDD51">>, <<"\\uDB40", "\\uDD52">>,
   <<"\\uDB40", "\\uDD53">>, <<"\\uDB40", "\\uDD54">>,
   <<"\\uDB40", "\\uDD55">>, <<"\\uDB40", "\\uDD56">>,
   <<"\\uDB40", "\\uDD57">>, <<"\\uDB40", "\\uDD58">>,
   <<"\\uDB40", "\\uDD59">>, <<"\\uDB40", "\\uDD5A">>,
   <<"\\uDB40", "\\uDD5B">>, <<"\\uDB40", "\\uDD5C">>,
   <<"\\uDB40", "\\uDD5D">>, <<"\\uDB40", "\\uDD5E">>,
   <<"\\uDB40", "\\uDD5F">>, <<"\\uDB40", "\\uDD60">>,
   <<"\\uDB40", "\\uDD61">>, <<"\\uDB40", "\\uDD62">>,
   <<"\\uDB40", "\\uDD63">>, <<"\\uDB40", "\\uDD64">>,
   <<"\\uDB40", "\\uDD65">>, <<"\\uDB40", "\\uDD66">>,
   <<"\\uDB40", "\\uDD67">>, <<"\\uDB40", "\\uDD68">>,
   <<"\\uDB40", "\\uDD69">>, <<"\\uDB40", "\\uDD6A">>,
   <<"\\uDB40", "\\uDD6B">>, <<"\\uDB40", "\\uDD6C">>,
   <<"\\uDB40", "\\uDD6D">>, <<"\\uDB40", "\\uDD6E">>,
   <<"\\uDB40", "\\uDD6F">>, <<"\\uDB40", "\\uDD70">>,
   <<"\\uDB40", "\\uDD71">>, <<"\\uDB40", "\\uDD72">>,
   <<"\\uDB40", "\\uDD73">>, <<"\\uDB40", "\\uDD74">>,
   <<"\\uDB40", "\\uDD75">>, <<"\\uDB40", "\\uDD76">>,
   <<"\\uDB40", "\\uDD77">>, <<"\\uDB40", "\\uDD78">>,
   <<"\\uDB40", "\\uDD79">>, <<"\\uDB40", "\\uDD7A">>,
   <<"\\uDB40", "\\uDD7B">>, <<"\\uDB40", "\\uDD7C">>,
   <<"\\uDB40", "\\uDD7D">>, <<"\\uDB40", "\\uDD7E">>,
   <<"\\uDB40", "\\uDD7F">>, <<"\\uDB40", "\\uDD80">>,
   <<"\\uDB40", "\\uDD81">>, <<"\\uDB40", "\\uDD82">>,
   <<"\\uDB40", "\\uDD83">>, <<"\\uDB40", "\\uDD84">>,
   <<"\\uDB40", "\\uDD85">>, <<"\\uDB40", "\\uDD86">>,
   <<"\\uDB40", "\\uDD87">>, <<"\\uDB40", "\\uDD88">>,
   <<"\\uDB40", "\\uDD89">>, <<"\\uDB40", "\\uDD8A">>,
   <<"\\uDB40", "\\uDD8B">>, <<"\\uDB40", "\\uDD8C">>,
   <<"\\uDB40", "\\uDD8D">>, <<"\\uDB40", "\\uDD8E">>,
   <<"\\uDB40", "\\uDD8F">>, <<"\\uDB40", "\\uDD90">>,
   <<"\\uDB40", "\\uDD91">>, <<"\\uDB40", "\\uDD92">>,
   <<"\\uDB40", "\\uDD93">>, <<"\\uDB40", "\\uDD94">>,
   <<"\\uDB40", "\\uDD95">>, <<"\\uDB40", "\\uDD96">>,
   <<"\\uDB40", "\\uDD97">>, <<"\\uDB40", "\\uDD98">>,
   <<"\\uDB40", "\\uDD99">>, <<"\\uDB40", "\\uDD9A">>,
   <<"\\uDB40", "\\uDD9B">>, <<"\\uDB40", "\\uDD9C">>,
   <<"\\uDB40", "\\uDD9D">>, <<"\\uDB40", "\\uDD9E">>,
   <<"\\uDB40", "\\uDD9F">>, <<"\\uDB40", "\\uDDA0">>,
   <<"\\uDB40", "\\uDDA1">>, <<"\\uDB40", "\\uDDA2">>,
   <<"\\uDB40", "\\uDDA3">>, <<"\\uDB40", "\\uDDA4">>,
   <<"\\uDB40", "\\uDDA5">>, <<"\\uDB40", "\\uDDA6">>,
   <<"\\uDB40", "\\uDDA7">>, <<"\\uDB40", "\\uDDA8">>,
   <<"\\uDB40", "\\uDDA9">>, <<"\\uDB40", "\\uDDAA">>,
   <<"\\uDB40", "\\uDDAB">>, <<"\\uDB40", "\\uDDAC">>,
   <<"\\uDB40", "\\uDDAD">>, <<"\\uDB40", "\\uDDAE">>,
   <<"\\uDB40", "\\uDDAF">>, <<"\\uDB40", "\\uDDB0">>,
   <<"\\uDB40", "\\uDDB1">>, <<"\\uDB40", "\\uDDB2">>,
   <<"\\uDB40", "\\uDDB3">>, <<"\\uDB40", "\\uDDB4">>,
   <<"\\uDB40", "\\uDDB5">>, <<"\\uDB40", "\\uDDB6">>,
   <<"\\uDB40", "\\uDDB7">>, <<"\\uDB40", "\\uDDB8">>,
   <<"\\uDB40", "\\uDDB9">>, <<"\\uDB40", "\\uDDBA">>,
   <<"\\uDB40", "\\uDDBB">>, <<"\\uDB40", "\\uDDBC">>,
   <<"\\uDB40", "\\uDDBD">>, <<"\\uDB40", "\\uDDBE">>,
   <<"\\uDB40", "\\uDDBF">>, <<"\\uDB40", "\\uDDC0">>,
   <<"\\uDB40", "\\uDDC1">>, <<"\\uDB40", "\\uDDC2">>,
   <<"\\uDB40", "\\uDDC3">>, <<"\\uDB40", "\\uDDC4">>,
   <<"\\uDB40", "\\uDDC5">>, <<"\\uDB40", "\\uDDC6">>,
   <<"\\uDB40", "\\uDDC7">>, <<"\\uDB40", "\\uDDC8">>,
   <<"\\uDB40", "\\uDDC9">>, <<"\\uDB40", "\\uDDCA">>,
   <<"\\uDB40", "\\uDDCB">>, <<"\\uDB40", "\\uDDCC">>,
   <<"\\uDB40", "\\uDDCD">>, <<"\\uDB40", "\\uDDCE">>,
   <<"\\uDB40", "\\uDDCF">>, <<"\\uDB40", "\\uDDD0">>,
   <<"\\uDB40", "\\uDDD1">>, <<"\\uDB40", "\\uDDD2">>,
   <<"\\uDB40", "\\uDDD3">>, <<"\\uDB40", "\\uDDD4">>,
   <<"\\uDB40", "\\uDDD5">>, <<"\\uDB40", "\\uDDD6">>,
   <<"\\uDB40", "\\uDDD7">>, <<"\\uDB40", "\\uDDD8">>,
   <<"\\uDB40", "\\uDDD9">>, <<"\\uDB40", "\\uDDDA">>,
   <<"\\uDB40", "\\uDDDB">>, <<"\\uDB40", "\\uDDDC">>,
   <<"\\uDB40", "\\uDDDD">>, <<"\\uDB40", "\\uDDDE">>,
   <<"\\uDB40", "\\uDDDF">>, <<"\\uDB40", "\\uDDE0">>,
   <<"\\uDB40", "\\uDDE1">>, <<"\\uDB40", "\\uDDE2">>,
   <<"\\uDB40", "\\uDDE3">>, <<"\\uDB40", "\\uDDE4">>,
   <<"\\uDB40", "\\uDDE5">>, <<"\\uDB40", "\\uDDE6">>,
   <<"\\uDB40", "\\uDDE7">>, <<"\\uDB40", "\\uDDE8">>,
   <<"\\uDB40", "\\uDDE9">>, <<"\\uDB40", "\\uDDEA">>,
   <<"\\uDB40", "\\uDDEB">>, <<"\\uDB40", "\\uDDEC">>,
   <<"\\uDB40", "\\uDDED">>, <<"\\uDB40", "\\uDDEE">>,
   <<"\\uDB40", "\\uDDEF">>}

\* The mappings as functions: of a character, and of the two code units of a
\* character beyond U+FFFF
UnicodeLower ==
  [c \in {p[1] : p \in LowerPairs} |->
     (CHOOSE p \in LowerPairs : p[1] = c)[2]]

AstralLower ==
  [c \in {p[1] : p \in AstralLowerPairs} |->
     (CHOOSE p \in AstralLowerPairs : p[1] = c)[2]]

Cased ==
  UpperLetters \cup LowerLetters \cup OtherCased
    \cup UNION {{p[1], p[2]} : p \in LowerPairs}

AstralCased ==
  AstralOtherCased \cup UNION {{p[1], p[2]} : p \in AstralLowerPairs}

\* The code unit at position i of s is a character of bmp, or one of the two
\* code units of a character of astral
UnitIn(s, i, bmp, astral) ==
  \/ s[i] \in bmp
  \/ i < Len(s) /\ <<s[i], s[i + 1]>> \in astral
  \/ i > 1 /\ <<s[i - 1], s[i]>> \in astral

\* Final_Sigma, from the positions of the case-ignorable and of the cased
\* characters: a cased letter that is not case-ignorable comes before
\* position i, and none after it, case-ignorable characters in between left
\* aside
Final(s, i, ignorable, cased) ==
  /\ \E j \in (cased \ ignorable) :
       j < i /\ \A k \in (j + 1)..(i - 1) : k \in ignorable
  /\ ~\E j \in (cased \ ignorable) :
       j > i /\ \A k \in (i + 1)..(j - 1) : k \in ignorable

FinalSigma(s, i) ==
  Final(s, i,
        {k \in 1..Len(s) : UnitIn(s, k, CaseIgnorable, AstralCaseIgnorable)},
        {k \in 1..Len(s) : UnitIn(s, k, Cased, AstralCased)})

\* The lower case of the code unit at position i of s under the mappings bmp,
\* of characters, and astral, of the two code units of a character
Lowered(s, i, bmp, astral) ==
  IF s[i] \in DOMAIN bmp THEN bmp[s[i]]
  ELSE IF i < Len(s) /\ <<s[i], s[i + 1]>> \in DOMAIN astral
    THEN astral[<<s[i], s[i + 1]>>][1]
  ELSE IF i > 1 /\ <<s[i - 1], s[i]>> \in DOMAIN astral
    THEN astral[<<s[i - 1], s[i]>>][2]
  ELSE s[i]

\* The lower case of the code unit at position i of s; of U+0130 the first
\* of its two characters
LowerUnit(s, i) ==
  IF s[i] \in LowerLetters \/ s[i] \in Digits THEN s[i]
  ELSE IF s[i] \in UpperLetters THEN LowerOf[s[i]]
  ELSE IF s[i] = "Σ" THEN (IF FinalSigma(s, i) THEN "ς" ELSE "σ")
  ELSE IF s[i] = "\\u0130" THEN "i"
  ELSE Lowered(s, i, UnicodeLower, AstralLower)

\* lower, with U+0307 put in after the lower case of every U+0130 of s
WithDots(s, lower) ==
  LET place(i) == i + Cardinality({d \in 1..(i - 1) : s[d] = "\\u0130"})
  IN [j \in 1..(place(Len(s) + 1) - 1) |->
        IF \E i \in 1..Len(s) : s[i] = "\\u0130" /\ place(i) + 1 = j
          THEN "\\u0307"
          ELSE lower[CHOOSE i \in 1..Len(s) : place(i) = j]]

\* String.prototype.toLowerCase: every character replaced by its lower case
\* in the Unicode Character Database, Σ by ς where it ends a word
toLowerCase(s) == WithDots(s, [i \in 1..Len(s) |-> LowerUnit(s, i)])

(***************************************************************************)
(* lexer.ts: the fixed word lists                                          *)
(***************************************************************************)
KEYWORDS ==
  { <<"k","o">>, <<"g","e","n","i">>, <<"k","a","l","a">>, <<"c","h","e">>,
    <<"w","e">>, <<"o","p","e","j","a","n","a">>, <<"r","a","k","a">>,
    <<"o","l","i","k","a">>, <<"o","g","h","w","a","r","a">>,
    <<"r","i","s","h","t","i","a">>, <<"g","h","a","l","a","t">> }

OPERATORS ==
  { <<"+">>, <<"j","a","m","a">>, <<"-">>, <<"m","a","n","f","i">>,
    <<"*">>, <<"z","a","r","a","b">>, <<"/">>, <<"t","a","k","s","e","e","m">>,
    <<"%">>, <<"t","a","k","s","e","e","m","b","a","k","i">>,
    <<"_">>, <<"=","=">>, <<"!","=">>, <<">">>, <<"<">>, <<">","=">>,
    <<"<","=">>, <<"=">> }

Token(t, v, l, c) == [type |-> t, value |-> v, line |-> l, column |-> c]

Err(m, v, l, c) == [message |-> m, value |-> v, line |-> l, column |-> c]

NoError == [message |-> "", value |-> <<>>, line |-> 0, column |-> 0]

(***************************************************************************)
(* Lexer.  The lexer's fields position, line and column are a record;      *)
(* currentChar is code[position], or null past the end.                    *)
(***************************************************************************)
\* LexerInit with the column counted from 0
LexerInit_ZeroColumn == [position |-> 0, line |-> 1, column |-> 0]

LexerInit == [position |-> 0, line |-> 1, column |-> 1]

currentChar(src, s) ==
  IF s.position >= Len(src) THEN NullChar ELSE src[s.position + 1]

LexAdvance(src, s) ==
  LET p == s.position + 1 IN
  IF p >= Len(src)
    THEN [position |-> p, line |-> s.line, column |-> s.column + 1]
    ELSE IF src[p + 1] = "\n"
           THEN [position |-> p, line |-> s.line + 1, column |-> 1]
           ELSE [position |-> p, line |-> s.line, column |-> s.column + 1]

LexPeek(src, s) ==
  IF s.position + 1 >= Len(src) THEN NullChar ELSE src[s.position + 2]

\* while (currentChar !== null && currentChar in set) { result += currentChar; advance() }
RECURSIVE TakeWhile(_, _, _, _)
TakeWhile(src, s, set, acc) ==
  IF currentChar(src, s) # NullChar /\ currentChar(src, s) \in set
    THEN TakeWhile(src, LexAdvance(src, s), set, Append(acc, currentChar(src, s)))
    ELSE [text |-> acc, st |-> s]

\* while (currentChar !== null && currentChar !== stop) { result += currentChar; advance() }
RECURSIVE TakeUntil(_, _, _, _)
TakeUntil(src, s, stop, acc) ==
  IF currentChar(src, s) # NullChar /\ currentChar(src, s) # stop
    THEN TakeUntil(src, LexAdvance(src, s), stop, Append(acc, currentChar(src, s)))
    ELSE [text |-> acc, st |-> s]

skipWhitespace(src, s) == TakeWhile(src, s, WhiteSpace, <<>>).st

skipComment(src, s) ==
  IF currentChar(src, s) = "/" /\ LexPeek(src, s) = "/"
    THEN LET e == TakeUntil(src, s, "\n", <<>>).st IN
         IF currentChar(src, e) = "\n" THEN LexAdvance(src, e) ELSE e
    ELSE s

LexOk(tok, s) == [ok |-> TRUE, token |-> tok, st |-> s, error |-> NoError]

LexFail(e, s) ==
  [ok |-> FALSE, token |-> Token("EOF", <<>>, 0, 0), st |-> s, error |-> e]

number(src, s) ==
  LET int == TakeWhile(src, s, Digits, <<>>) IN
  IF currentChar(src, int.st) = "."
    THEN LET frac == TakeWhile(src, LexAdvance(src, int.st), Digits,
                               Append(int.text, "."))
         IN LexOk(Token("NUMBER", frac.text, frac.st.line, s.column), frac.st)
    ELSE LexOk(Token("NUMBER", int.text, int.st.line, s.column), int.st)

string(src, s) ==
  LET quote == currentChar(src, s)
      body  == TakeUntil(src, LexAdvance(src, s), quote, <<>>)
  IN IF currentChar(src, body.st) = quote
       THEN LET e == LexAdvance(src, body.st)
            IN LexOk(Token("STRING", body.text, e.line, s.column), e)
       ELSE LexFail(Err("Unterminated string", <<>>, body.st.line, s.column),
                    body.st)

\* identifier with the word lists searched for the text as written
identifier_CaseSensitive(src, s) ==
  LET w == TakeWhile(src, s, IdentPart, <<>>)
  IN IF w.text \in KEYWORDS
       THEN LexOk(Token("KEYWORD", w.text, w.st.line, s.column), w.st)
       ELSE IF w.text \in OPERATORS
         THEN LexOk(Token("OPERATOR", w.text, w.st.line, s.column), w.st)
         ELSE LexOk(Token("IDENTIFIER", w.text, w.st.line, s.column), w.st)

identifier(src, s) ==
  LET w == TakeWhile(src, s, IdentPart, <<>>)
      lowerResult == toLowerCase(w.text)
  IN IF lowerResult \in KEYWORDS
       THEN LexOk(Token("KEYWORD", lowerResult, w.st.line, s.column), w.st)
       ELSE IF lowerResult \in OPERATORS
         THEN LexOk(Token("OPERATOR", lowerResult, w.st.line, s.column), w.st)
         ELSE LexOk(Token("IDENTIFIER", w.text, w.st.line, s.column), w.st)

operator(src, s) ==
  LET value == currentChar(src, s)
      s1    == LexAdvance(src, s)
  IN IF value \in {"=", "!", ">", "<"} /\ currentChar(src, s1) = "="
       THEN LET s2 == LexAdvance(src, s1)
            IN LexOk(Token("OPERATOR", <<value, "=">>, s2.line, s.column), s2)
       ELSE LexOk(Token("OPERATOR", <<value>>, s1.line, s.column), s1)

RECURSIVE getNextToken(_, _)
getNextToken(src, s) ==
  LET c == currentChar(src, s) IN
  IF c = NullChar THEN LexOk(Token("EOF", <<>>, s.line, s.column), s)
  ELSE IF c \in WhiteSpace THEN getNextToken(src, skipWhitespace(src, s))
  ELSE IF c = "/" /\ LexPeek(src, s) = "/"
    THEN getNextToken(src, skipComment(src, s))
  ELSE IF c \in Digits THEN number(src, s)
  ELSE IF c \in {"\"", "'"} THEN string(src, s)
  ELSE IF c \in IdentStart THEN identifier(src, s)
  ELSE IF <<c>> \in OPERATORS \/ c \in {"=", "!", ">", "<"} THEN operator(src, s)
  ELSE IF c \in PunctuationChars
    THEN LexOk(Token("PUNCTUATION", <<c>>, s.line, s.column), LexAdvance(src, s))
  ELSE LexFail(Err("Unexpected character", <<c>>, s.line, s.column), s)

\* TokenizeFrom without the push of the EOF token after the loop
RECURSIVE TokenizeFrom_NoEOF(_, _, _)
TokenizeFrom_NoEOF(src, s, acc) ==
  LET r == getNextToken(src, s) IN
  IF ~r.ok THEN [ok |-> FALSE, tokens |-> <<>>, error |-> r.error]
  ELSE IF r.token.type = "EOF"
    THEN [ok |-> TRUE, tokens |-> acc, error |-> NoError]
    ELSE TokenizeFrom_NoEOF(src, r.st, Append(acc, r.token))

RECURSIVE TokenizeFrom(_, _, _)
TokenizeFrom(src, s, acc) ==
  LET r == getNextToken(src, s) IN
  IF ~r.ok THEN [ok |-> FALSE, tokens |-> <<>>, error |-> r.error]
  ELSE IF r.token.type = "EOF"
    THEN [ok |-> TRUE, tokens |-> Append(acc, r.token), error |-> NoError]
    ELSE TokenizeFrom(src, r.st, Append(acc, r.token))

tokenize(src) == TokenizeFrom(src, LexerInit, <<>>)

(***************************************************************************)
(* parser.ts: AST nodes.  null is the record Null.                         *)
(***************************************************************************)
Null == [type |-> "null"]

Undefined == ""

DigitValue ==
  [c \in Digits |->
     CASE c = "0" -> 0 [] c = "1" -> 1 [] c = "2" -> 2 [] c = "3" -> 3
       [] c = "4" -> 4 [] c = "5" -> 5 [] c = "6" -> 6 [] c = "7" -> 7
       [] c = "8" -> 8 [] c = "9" -> 9]

(***************************************************************************)
(* Numbers.  A Number is an IEEE 754 double.  A finite double is the pair  *)
(* [m, e] that stands for m * 2^e, with 2^52 <= m < 2^53 and e >= -1074,   *)
(* or m < 2^52 and e = -1074 (subnormal), or m = 0 and e = 0; so two       *)
(* numerals are the same record exactly when they are the same double.     *)
(* m has 53 bits: it is kept as a sequence of limbs in base 10000, least   *)
(* significant first, without a zero limb at the end (zero is <<>>).       *)
(***************************************************************************)
Base == 10000

\* Limb i of x, 0 above its top limb
Limb(x, i) == IF i <= Len(x) THEN x[i] ELSE 0

\* x without zero limbs at its top
StripZeroLimbs(x) ==
  LET top == CHOOSE n \in 0..Len(x) :
               /\ n = 0 \/ x[n] # 0
               /\ \A j \in (n + 1)..Len(x) : x[j] = 0
  IN SubSeq(x, 1, top)

\* x + y; limb i takes a carry when a limb below it overflows and every limb
\* between the two is full
Sum(x, y) ==
  LET n        == (IF Len(x) > Len(y) THEN Len(x) ELSE Len(y)) + 1
      at(i)    == Limb(x, i) + Limb(y, i)
      carry(i) == \E j \in 1..(i - 1) :
                    at(j) >= Base /\ \A m \in (j + 1)..(i - 1) : at(m) = Base - 1
  IN StripZeroLimbs([i \in 1..n |->
                       (at(i) + (IF carry(i) THEN 1 ELSE 0)) % Base])

\* x - y, for x >= y; limb i lends when a limb below it is short and every
\* limb between the two is level
Difference(x, y) ==
  LET borrow(i) == \E j \in 1..(i - 1) :
                     /\ x[j] < Limb(y, j)
                     /\ \A m \in (j + 1)..(i - 1) : x[m] = Limb(y, m)
  IN StripZeroLimbs([i \in 1..Len(x) |->
                       (x[i] - Limb(y, i) - (IF borrow(i) THEN 1 ELSE 0) + Base)
                         % Base])

\* x * k, for k up to Base: the low parts of the limbs' products plus their
\* high parts one limb up
Scaled(x, k) ==
  Sum([i \in 1..Len(x) |-> (x[i] * k) % Base],
      <<0>> \o [i \in 1..Len(x) |-> (x[i] * k) \div Base])

Double(x) == Scaled(x, 2)

\* x < y: fewer limbs, or as many and the smaller one where they first differ
\* from the top
Below(x, y) ==
  IF Len(x) # Len(y) THEN Len(x) < Len(y)
  ELSE \E i \in 1..Len(x) :
         x[i] < y[i] /\ \A j \in (i + 1)..Len(x) : x[j] = y[j]

\* 2^k, for k up to 13
TwoTo ==
  [k \in 0..13 |->
     CASE k = 0 -> 1 [] k = 1 -> 2 [] k = 2 -> 4 [] k = 3 -> 8 [] k = 4 -> 16
       [] k = 5 -> 32 [] k = 6 -> 64 [] k = 7 -> 128 [] k = 8 -> 256
       [] k = 9 -> 512 [] k = 10 -> 1024 [] k = 11 -> 2048 [] k = 12 -> 4096
       [] k = 13 -> 8192]

\* x * 2^k
RECURSIVE ShiftLeft(_, _)
ShiftLeft(x, k) ==
  IF k <= 13 THEN Scaled(x, TwoTo[k])
  ELSE LET half == ShiftLeft(x, k \div 2)
       IN IF Len(half) = 0 THEN half ELSE ShiftLeft(half, k - k \div 2)

Two52 == ShiftLeft(<<1>>, 52)

Two53 == ShiftLeft(<<1>>, 53)

\* num >= den * 2^k, for k of either sign
AtLeast(num, den, k) ==
  IF k >= 0 THEN ~Below(num, ShiftLeft(den, k))
  ELSE ~Below(ShiftLeft(num, -k), den)

\* The limb t with den * t <= rem < den * (t + 1), for rem < den * Base and
\* the top limb of den at least Base / 2: the quotient of the top limbs of rem
\* by the top limb of den is t, t + 1 or t + 2
QuotientLimb(rem, den) ==
  IF Len(rem) < Len(den) THEN 0
  ELSE LET n     == Len(den)
           top   == (IF Len(rem) > n THEN rem[n + 1] * Base ELSE 0) + rem[n]
           guess == IF top \div den[n] > Base - 1 THEN Base - 1 ELSE top \div den[n]
       IN CHOOSE t \in (IF guess < 2 THEN 0 ELSE guess - 2)..guess :
            /\ ~Below(rem, Scaled(den, t))
            /\ Below(rem, Scaled(den, t + 1))

\* Long division: limb i of num and those below it are still to bring down,
\* q holds the limbs of the quotient found so far and r the remainder
RECURSIVE LongDivision(_, _, _, _, _)
LongDivision(num, den, i, q, r) ==
  IF i = 0 THEN [q |-> StripZeroLimbs(q), r |-> r]
  ELSE LET rem == StripZeroLimbs(<<num[i]>> \o r)
           t   == QuotientLimb(rem, den)
       IN IF t = 0 THEN LongDivision(num, den, i - 1, <<0>> \o q, rem)
          ELSE LongDivision(num, den, i - 1, <<t>> \o q,
                            Difference(rem, Scaled(den, t)))

\* The quotient q of num by den and the remainder, both num and den scaled
\* to bring the top limb of den to Base / 2 or more: num * k = q * den * k + r
QuotientRemainder(num, den) ==
  LET k == Base \div (den[Len(den)] + 1)
      n == Scaled(num, k)
      d == Scaled(den, k)
      i == Len(n) - Len(d) + 1
  IN IF i < 1 THEN [q |-> <<>>, r |-> n, den |-> d]
     ELSE LET l == LongDivision(n, d, i, <<>>, SubSeq(n, i + 1, Len(n)))
          IN [q |-> l.q, r |-> l.r, den |-> d]

MinExponent == -1074

MaxExponent == 971

\* A double: sign * m * 2^e
PlusZero == [sign |-> 1, m |-> <<>>, e |-> 0]

\* Exponent above every finite one: without fraction Infinity, with one NaN
Infinity == [sign |-> 1, m |-> <<>>, e |-> MaxExponent + 1]

NaN == [sign |-> 1, m |-> <<1>>, e |-> MaxExponent + 1]

\* The e with den * 2^(52+e) <= num < den * 2^(53+e), for num > 0.  A limb is
\* between 13.287 and 13.288 binary places, so num / den lies between
\* 2^(13.287 * (d - 1)) and 2^(13.288 * (d + 1)) when d >= 1, and between the
\* same powers with the two factors exchanged where the count is negative.
Exponent(num, den) ==
  LET d  == Len(num) - Len(den)
      lo == ((IF d >= 1 THEN 13287 ELSE 13288) * (d - 1)) \div 1000 - 53
      hi == ((IF d >= -1 THEN 13288 ELSE 13287) * (d + 1)) \div 1000 - 51
  IN CHOOSE e \in lo..hi :
       AtLeast(num, den, 52 + e) /\ ~AtLeast(num, den, 53 + e)

\* q + r/den rounded to the nearest integer, a tie to the even one
RoundHalfEven(q, r, den) ==
  LET up == \/ Below(den, Double(r))
            \/ Double(r) = den /\ Len(q) > 0 /\ Head(q) % 2 = 1
  IN IF up THEN Sum(q, <<1>>) ELSE q

\* The double nearest to num / den, num and den positive or num zero: 53 binary places, fewer below 2^-1022,
\* Infinity from 2^1024 on
ToDouble(num, den) ==
  IF Len(num) = 0 THEN PlusZero
  ELSE LET x == Exponent(num, den)
           e == IF x < MinExponent THEN MinExponent ELSE x
       IN IF e > MaxExponent THEN Infinity
          ELSE LET d == IF e >= 0 THEN QuotientRemainder(num, ShiftLeft(den, e))
                                  ELSE QuotientRemainder(ShiftLeft(num, -e), den)
                   m == RoundHalfEven(d.q, d.r, d.den)
               IN IF Len(m) = 0 THEN PlusZero
                  ELSE IF m = Two53
                    THEN (IF e + 1 > MaxExponent THEN Infinity
                          ELSE [sign |-> 1, m |-> Two52, e |-> e + 1])
                  ELSE [sign |-> 1, m |-> m, e |-> e]

\* The digit p places from the end of the numeral ds, 0 beyond its start
DigitAt(ds, p) == IF p < Len(ds) THEN DigitValue[ds[Len(ds) - p]] ELSE 0

\* The decimal numeral ds as limbs
FromDigits(ds) ==
  StripZeroLimbs(
    [j \in 1..((Len(ds) + 3) \div 4) |->
       DigitAt(ds, 4 * j - 4) + 10 * DigitAt(ds, 4 * j - 3)
         + 100 * DigitAt(ds, 4 * j - 2) + 1000 * DigitAt(ds, 4 * j - 1)])

\* 10^k
PowerOfTen(k) ==
  [j \in 1..(k \div 4) |-> 0]
    \o << CASE k % 4 = 0 -> 1 [] k % 4 = 1 -> 10 [] k % 4 = 2 -> 100
              [] k % 4 = 3 -> 1000 >>

\* x * 10^k, for x > 0
TimesPowerOfTen(x, k) ==
  [j \in 1..(k \div 4) |-> 0]
    \o Scaled(x, CASE k % 4 = 0 -> 1 [] k % 4 = 1 -> 10 [] k % 4 = 2 -> 100
                   [] k % 4 = 3 -> 1000)

\* The character of text at position i, null outside the text
At(text, i) == IF i >= 1 /\ i <= Len(text) THEN text[i] ELSE NullChar

\* The first position from i on, i at most one past the end, whose character
\* is not in set
Skip(text, i, set) ==
  CHOOSE j \in i..(Len(text) + 1) :
    /\ j = Len(text) + 1 \/ text[j] \notin set
    /\ \A k \in i..(j - 1) : text[k] \in set

\* The digits of text from position i on
DigitsFrom(text, i) ==
  IF i > Len(text) THEN <<>> ELSE SubSeq(text, i, Skip(text, i, Digits) - 1)

\* Decimal exponents from here on give 0 or Infinity for every numeral a text
\* can hold
MaxDecimalExponent == 1000000000

\* The number a little-endian sequence of limbs stands for, up to
\* MaxDecimalExponent
Bounded(x) ==
  IF Len(x) > 3 \/ Limb(x, 3) > 9 THEN MaxDecimalExponent
  ELSE Limb(x, 1) + Base * Limb(x, 2) + Base * Base * Limb(x, 3)

\* The digits of the exponent part at position i: after e or E and an
\* optional sign; none when there is no exponent part
ExponentDigits(text, i) ==
  IF At(text, i) \in {"e", "E"}
    THEN DigitsFrom(text, IF At(text, i + 1) \in {"+", "-"} THEN i + 2 ELSE i + 1)
    ELSE <<>>

\* The value of the exponent part at position i, 0 when there is none
ExponentPart(text, i) ==
  IF Len(ExponentDigits(text, i)) = 0 THEN 0
  ELSE IF At(text, i + 1) = "-" THEN -Bounded(FromDigits(ExponentDigits(text, i)))
  ELSE Bounded(FromDigits(ExponentDigits(text, i)))

\* Every numeral below 10^MinDecimal is nearer to 0 than to 2^-1074, every
\* numeral from 10^MaxDecimal on is beyond the largest double
MinDecimal == -324

MaxDecimal == 309

\* num * 10^p as a double, num > 0
Decimal(num, p) ==
  ToDouble(IF p >= 0 THEN TimesPowerOfTen(num, p) ELSE num,
           IF p >= 0 THEN <<1>> ELSE PowerOfTen(-p))

\* The digits ds times 10^p as a double; NaN without a digit
DecimalLiteral(ds, p) ==
  LET n == Len(ds) - (Skip(ds, 1, {"0"}) - 1)
  IN IF Len(ds) = 0 THEN NaN
     ELSE IF n = 0 \/ n + p <= MinDecimal THEN PlusZero
     ELSE IF n - 1 + p >= MaxDecimal THEN Infinity
     ELSE Decimal(FromDigits(ds), p)

\* The digits after a `.` at position dot; none when there is no `.`
FractionFrom(text, dot) ==
  IF At(text, dot) = "." THEN DigitsFrom(text, dot + 1) ELSE <<>>

\* The numeral with the integer digits int, then at position dot at most
\* one `.` with more digits, then an exponent part
DecimalFrom(text, int, dot) ==
  DecimalLiteral(int \o FractionFrom(text, dot),
                 ExponentPart(text, IF At(text, dot) = "."
                                      THEN dot + 1 + Len(FractionFrom(text, dot))
                                      ELSE dot)
                   - Len(FractionFrom(text, dot)))

\* The numeral without sign at position i: Infinity or a decimal literal
UnsignedLiteral(text, i) ==
  IF i + 7 <= Len(text)
       /\ SubSeq(text, i, i + 7) = <<"I", "n", "f", "i", "n", "i", "t", "y">>
    THEN Infinity
    ELSE DecimalFrom(text, DigitsFrom(text, i), i + Len(DigitsFrom(text, i)))

\* The double d with the sign of a numeral; NaN has none
Signed(negative, d) ==
  IF negative /\ d # NaN THEN [d EXCEPT !.sign = -1] ELSE d

\* The numeral at position start, with its optional sign
SignedLiteral(text, start) ==
  Signed(At(text, start) = "-",
         UnsignedLiteral(text, IF At(text, start) \in {"+", "-"}
                                 THEN start + 1 ELSE start))

\* parseFloat(string): after leading white space, the longest prefix that is
\* a numeral (an optional sign, then Infinity or a decimal literal) as a
\* double; NaN when no prefix is one.
parseFloat(text) == SignedLiteral(text, Skip(text, 1, WhiteSpace))

Program(body) == [type |-> "Program", body |-> body, line |-> 1, column |-> 1]

NumericLiteral(value, l, c) ==
  [type |-> "NumericLiteral", value |-> value, line |-> l, column |-> c]

StringLiteral(value, l, c) ==
  [type |-> "StringLiteral", value |-> value, line |-> l, column |-> c]

BooleanLiteral(value, l, c) ==
  [type |-> "BooleanLiteral", value |-> value, line |-> l, column |-> c]

Identifier(name, l, c) ==
  [type |-> "Identifier", name |-> name, line |-> l, column |-> c]

BinaryExpression(op, left, right, l, c) ==
  [type |-> "BinaryExpression", operator |-> op, left |-> left,
   right |-> right, line |-> l, column |-> c]

AssignmentExpression(left, right, l, c) ==
  [type |-> "AssignmentExpression", left |-> left, right |-> right,
   line |-> l, column |-> c]

FunctionDeclaration(name, params, body, l, c) ==
  [type |-> "FunctionDeclaration", name |-> name, params |-> params,
   body |-> body, line |-> l, column |-> c]

CallExpression(callee, args, l, c) ==
  [type |-> "CallExpression", callee |-> callee, arguments |-> args,
   line |-> l, column |-> c]

ReturnStatement(argument, l, c) ==
  [type |-> "ReturnStatement", argument |-> argument, line |-> l, column |-> c]

IfStatement(test, consequent, alternate, l, c) ==
  [type |-> "IfStatement", test |-> test, consequent |-> consequent,
   alternate |-> alternate, line |-> l, column |-> c]

WhileStatement(test, body, l, c) ==
  [type |-> "WhileStatement", test |-> test, body |-> body,
   line |-> l, column |-> c]

ForStatement(variable, iterable, body, l, c) ==
  [type |-> "ForStatement", variable |-> variable, iterable |-> iterable,
   body |-> body, line |-> l, column |-> c]

BlockStatement(body, l, c) ==
  [type |-> "BlockStatement", body |-> body, line |-> l, column |-> c]

ExpressionStatement(expr, l, c) ==
  [type |-> "ExpressionStatement", expression |-> expr, line |-> l, column |-> c]

ArrayLiteral(elements, l, c) ==
  [type |-> "ArrayLiteral", elements |-> elements, line |-> l, column |-> c]

(***************************************************************************)
(* Parser.  `current` is the 0-based cursor of parser.ts; every method     *)
(* takes the token list and the cursor and returns the cursor it leaves,   *)
(* with the node it returns or the Error it throws.                        *)
(***************************************************************************)
POk(cur, node) ==
  [ok |-> TRUE, current |-> cur, node |-> node, error |-> NoError]

PFail(cur, e) == [ok |-> FALSE, current |-> cur, node |-> Null, error |-> e]

peek(toks, cur) == toks[cur + 1]

previous(toks, cur) == toks[cur]

isAtEnd(toks, cur) == peek(toks, cur).type = "EOF"

advance(toks, cur) == IF ~isAtEnd(toks, cur) THEN cur + 1 ELSE cur

\* this.<method>(): every call of one parser method by another goes through
\* Invoke, which is defined after the methods; `arg` is finishCall's callee,
\* and the type and the value that check is called with.
RECURSIVE Invoke(_, _, _, _), BlockLoop(_, _, _), BinaryLoop(_, _, _, _, _),
          CallLoop(_, _, _), ExpressionList(_, _, _)

\* check(type, value?): value = <<>> stands for an omitted (falsy) value.
check(toks, cur, type, value) ==
  IF isAtEnd(toks, cur) THEN FALSE
  ELSE IF value # <<>>
    THEN /\ peek(toks, cur).type = type
         /\ toLowerCase(peek(toks, cur).value) = toLowerCase(value)
    ELSE peek(toks, cur).type = type

\* match(type): every call site passes one type.
match(toks, cur, type) ==
  IF Invoke("check", toks, cur, <<type, <<>>>>)
    THEN [matched |-> TRUE, current |-> advance(toks, cur)]
    ELSE [matched |-> FALSE, current |-> cur]

matchValue(toks, cur, type, value) ==
  IF Invoke("check", toks, cur, <<type, value>>)
    THEN [matched |-> TRUE, current |-> advance(toks, cur)]
    ELSE [matched |-> FALSE, current |-> cur]

\* consume(type, message): declared with two parameters.  A call site that
\* passes three (type, character, text) binds the character to `message`
\* and the text to nothing: `extra` is never read.
consume(toks, cur, type, message, extra) ==
  IF Invoke("check", toks, cur, <<type, <<>>>>)
    THEN POk(advance(toks, cur), previous(toks, advance(toks, cur)))
    ELSE PFail(cur, Err(message, <<>>, peek(toks, cur).line,
                        peek(toks, cur).column))

\* consumeValue with the value left out of the check, as consume does.
consumeValue_TypeOnly(toks, cur, type, value, message) ==
  IF Invoke("check", toks, cur, <<type, <<>>>>)
    THEN POk(advance(toks, cur), previous(toks, advance(toks, cur)))
    ELSE PFail(cur, Err(message, <<>>, peek(toks, cur).line,
                        peek(toks, cur).column))

consumeValue(toks, cur, type, value, message) ==
  IF Invoke("check", toks, cur, <<type, value>>)
    THEN POk(advance(toks, cur), previous(toks, advance(toks, cur)))
    ELSE PFail(cur, Err(message, <<>>, peek(toks, cur).line,
                        peek(toks, cur).column))

declaration(toks, cur) ==
  LET m == matchValue(toks, cur, "KEYWORD", <<"o","p","e","j","a","n","a">>) IN
  IF m.matched THEN Invoke("functionDeclaration", toks, m.current, Null)
  ELSE Invoke("statement", toks, m.current, Null)

\* do { params.push(consume(IDENTIFIER, ...).value) }
\* while (match(PUNCTUATION) && previous().value === ',')
RECURSIVE ParamLoop(_, _, _)
ParamLoop(toks, cur, params) ==
  LET p == consume(toks, cur, "IDENTIFIER", "Expected parameter name", Undefined)
  IN IF ~p.ok THEN p
     ELSE LET m == match(toks, p.current, "PUNCTUATION") IN
          IF m.matched /\ previous(toks, m.current).value = <<",">>
            THEN ParamLoop(toks, m.current, Append(params, p.node.value))
            ELSE POk(m.current, Append(params, p.node.value))

functionDeclaration(toks, cur) ==
  LET token == previous(toks, cur)
      name  == consume(toks, cur, "IDENTIFIER", "Expected function name", Undefined)
  IN IF ~name.ok THEN name ELSE
  LET open == consume(toks, name.current, "PUNCTUATION", "(",
                      "Expected \"(\" after function name")
  IN IF ~open.ok THEN open ELSE
  LET params == IF ~Invoke("check", toks, open.current, <<"PUNCTUATION", <<")">>>>)
                  THEN ParamLoop(toks, open.current, <<>>)
                  ELSE POk(open.current, <<>>)
  IN IF ~params.ok THEN params ELSE
  LET close == consume(toks, params.current, "PUNCTUATION", ")",
                       "Expected \")\" after parameters")
  IN IF ~close.ok THEN close ELSE
  LET brace == consume(toks, close.current, "PUNCTUATION", "{",
                       "Expected \"{\" before function body")
  IN IF ~brace.ok THEN brace ELSE
  LET body == Invoke("blockStatement", toks, brace.current, Null)
  IN IF ~body.ok THEN body ELSE
  POk(body.current,
      FunctionDeclaration(name.node.value, params.node, body.node,
                          token.line, token.column))

statement(toks, cur) ==
  LET mKo == matchValue(toks, cur, "KEYWORD", <<"k","o">>) IN
  IF mKo.matched THEN Invoke("ifStatement", toks, mKo.current, Null) ELSE
  LET mKala == matchValue(toks, cur, "KEYWORD", <<"k","a","l","a">>) IN
  IF mKala.matched THEN Invoke("whileStatement", toks, mKala.current, Null) ELSE
  LET mChe == matchValue(toks, cur, "KEYWORD", <<"c","h","e">>) IN
  IF mChe.matched THEN Invoke("forStatement", toks, mChe.current, Null) ELSE
  LET mRaka == matchValue(toks, cur, "KEYWORD", <<"r","a","k","a">>) IN
  IF mRaka.matched THEN Invoke("returnStatement", toks, mRaka.current, Null) ELSE
  LET m == match(toks, cur, "PUNCTUATION") IN
  IF m.matched /\ previous(toks, m.current).value = <<"{">>
    THEN Invoke("blockStatement", toks, m.current, Null)
    ELSE Invoke("expressionStatement", toks, m.current, Null)

ifStatement(toks, cur) ==
  LET token == previous(toks, cur)
      open  == consume(toks, cur, "PUNCTUATION", "(", "Expected \"(\" after \"ko\"")
  IN IF ~open.ok THEN open ELSE
  LET test == Invoke("expression", toks, open.current, Null)
  IN IF ~test.ok THEN test ELSE
  LET close == consume(toks, test.current, "PUNCTUATION", ")",
                       "Expected \")\" after if condition")
  IN IF ~close.ok THEN close ELSE
  LET brace == consume(toks, close.current, "PUNCTUATION", "{",
                       "Expected \"{\" before if body")
  IN IF ~brace.ok THEN brace ELSE
  LET consequent == Invoke("blockStatement", toks, brace.current, Null)
  IN IF ~consequent.ok THEN consequent ELSE
  LET mGeni == matchValue(toks, consequent.current, "KEYWORD", <<"g","e","n","i">>)
  IN IF ~mGeni.matched
       THEN POk(mGeni.current,
                IfStatement(test.node, consequent.node, Null,
                            token.line, token.column))
       ELSE
  LET brace2 == consume(toks, mGeni.current, "PUNCTUATION", "{",
                        "Expected \"{\" before else body")
  IN IF ~brace2.ok THEN brace2 ELSE
  LET alternate == Invoke("blockStatement", toks, brace2.current, Null)
  IN IF ~alternate.ok THEN alternate ELSE
  POk(alternate.current,
      IfStatement(test.node, consequent.node, alternate.node,
                  token.line, token.column))

whileStatement(toks, cur) ==
  LET token == previous(toks, cur)
      open  == consume(toks, cur, "PUNCTUATION", "(", "Expected \"(\" after \"kala\"")
  IN IF ~open.ok THEN open ELSE
  LET test == Invoke("expression", toks, open.current, Null)
  IN IF ~test.ok THEN test ELSE
  LET close == consume(toks, test.current, "PUNCTUATION", ")",
                       "Expected \")\" after while condition")
  IN IF ~close.ok THEN close ELSE
  LET brace == consume(toks, close.current, "PUNCTUATION", "{",
                       "Expected \"{\" before while body")
  IN IF ~brace.ok THEN brace ELSE
  LET body == Invoke("blockStatement", toks, brace.current, Null)
  IN IF ~body.ok THEN body ELSE
  POk(body.current, WhileStatement(test.node, body.node, token.line, token.column))

forStatement(toks, cur) ==
  LET token == previous(toks, cur)
      open  == consume(toks, cur, "PUNCTUATION", "(", "Expected \"(\" after \"che\"")
  IN IF ~open.ok THEN open ELSE
  LET variable == consume(toks, open.current, "IDENTIFIER",
                          "Expected variable name in for loop", Undefined)
  IN IF ~variable.ok THEN variable ELSE
  LET we == consumeValue(toks, variable.current, "KEYWORD", <<"w","e">>,
                         "Expected \"we\" after variable name in for loop")
  IN IF ~we.ok THEN we ELSE
  LET iterable == Invoke("expression", toks, we.current, Null)
  IN IF ~iterable.ok THEN iterable ELSE
  LET close == consume(toks, iterable.current, "PUNCTUATION", ")",
                       "Expected \")\" after for loop condition")
  IN IF ~close.ok THEN close ELSE
  LET brace == consume(toks, close.current, "PUNCTUATION", "{",
                       "Expected \"{\" before for loop body")
  IN IF ~brace.ok THEN brace ELSE
  LET body == Invoke("blockStatement", toks, brace.current, Null)
  IN IF ~body.ok THEN body ELSE
  POk(body.current,
      ForStatement(variable.node.value, iterable.node, body.node,
                   token.line, token.column))

returnStatement(toks, cur) ==
  LET token == previous(toks, cur)
      argument ==
        IF /\ ~Invoke("check", toks, cur, <<"PUNCTUATION", <<";">>>>)
           /\ ~Invoke("check", toks, cur, <<"PUNCTUATION", <<"}">>>>)
          THEN Invoke("expression", toks, cur, Null)
          ELSE POk(cur, Null)
  IN IF ~argument.ok THEN argument ELSE
  \* if (this.match(PUNCTUATION) && this.previous().value === ';') { }
  LET m == match(toks, argument.current, "PUNCTUATION")
  IN POk(m.current, ReturnStatement(argument.node, token.line, token.column))

\* while (!check(PUNCTUATION, '}') && !isAtEnd()) statements.push(declaration())
BlockLoop(toks, cur, statements) ==
  IF ~Invoke("check", toks, cur, <<"PUNCTUATION", <<"}">>>>) /\ ~isAtEnd(toks, cur)
    THEN LET d == Invoke("declaration", toks, cur, Null) IN
         IF ~d.ok THEN d
         ELSE BlockLoop(toks, d.current, Append(statements, d.node))
    ELSE POk(cur, statements)

blockStatement(toks, cur) ==
  LET token == previous(toks, cur)
      statements == BlockLoop(toks, cur, <<>>)
  IN IF ~statements.ok THEN statements ELSE
  LET close == consume(toks, statements.current, "PUNCTUATION", "}",
                       "Expected \"}\" after block")
  IN IF ~close.ok THEN close ELSE
  POk(close.current, BlockStatement(statements.node, token.line, token.column))

\* An expression statement that looks at its expression without consuming it
expressionStatement_CursorKept(toks, cur) ==
  LET token == peek(toks, cur)
      expr  == Invoke("expression", toks, cur, Null)
  IN IF ~expr.ok THEN expr ELSE
  POk(cur, ExpressionStatement(expr.node, token.line, token.column))

expressionStatement(toks, cur) ==
  LET token == peek(toks, cur)
      expr  == Invoke("expression", toks, cur, Null)
  IN IF ~expr.ok THEN expr ELSE
  \* if (this.match(PUNCTUATION) && this.previous().value === ';') { }
  LET m == match(toks, expr.current, "PUNCTUATION")
  IN POk(m.current, ExpressionStatement(expr.node, token.line, token.column))

expression(toks, cur) == Invoke("assignment", toks, cur, Null)

assignment(toks, cur) ==
  LET expr == Invoke("equality", toks, cur, Null)
  IN IF ~expr.ok THEN expr ELSE
  LET m == match(toks, expr.current, "OPERATOR")
  IN IF m.matched /\ previous(toks, m.current).value = <<"=">>
       THEN LET equals == previous(toks, m.current)
                value  == Invoke("assignment", toks, m.current, Null)
            IN IF ~value.ok THEN value
               ELSE IF expr.node.type = "Identifier"
                 THEN POk(value.current,
                          AssignmentExpression(expr.node, value.node,
                                               equals.line, equals.column))
                 ELSE PFail(value.current,
                            Err("Invalid assignment target", <<>>,
                                equals.line, equals.column))
       ELSE POk(m.current, expr.node)

\* while (match(OPERATOR) && operators.includes(previous().value)) { ... }
BinaryLoop(toks, cur, next, operators, expr) ==
  LET m == match(toks, cur, "OPERATOR") IN
  IF m.matched /\ previous(toks, m.current).value \in operators
    THEN LET op    == previous(toks, m.current).value
             right == Invoke(next, toks, m.current, Null)
         IN IF ~right.ok THEN right
            ELSE BinaryLoop(toks, right.current, next, operators,
                   BinaryExpression(op, expr, right.node,
                                    previous(toks, right.current).line,
                                    previous(toks, right.current).column))
    ELSE POk(m.current, expr)

parseBinaryExpression(toks, cur, next, operators) ==
  LET expr == Invoke(next, toks, cur, Null)
  IN IF ~expr.ok THEN expr
     ELSE BinaryLoop(toks, expr.current, next, operators, expr.node)

equality(toks, cur) ==
  parseBinaryExpression(toks, cur, "comparison", {<<"=","=">>, <<"!","=">>})

comparison(toks, cur) ==
  parseBinaryExpression(toks, cur, "addition",
                        {<<">">>, <<"<">>, <<">","=">>, <<"<","=">>})

addition(toks, cur) ==
  parseBinaryExpression(toks, cur, "multiplication",
                        {<<"+">>, <<"-">>, <<"_">>, <<"j","a","m","a">>,
                         <<"m","a","n","f","i">>})

multiplication(toks, cur) ==
  parseBinaryExpression(toks, cur, "unary",
                        {<<"*">>, <<"/">>, <<"%">>, <<"z","a","r","a","b">>,
                         <<"t","a","k","s","e","e","m">>,
                         <<"t","a","k","s","e","e","m","b","a","k","i">>})

unary(toks, cur) ==
  LET m == match(toks, cur, "OPERATOR") IN
  IF m.matched /\ previous(toks, m.current).value
                    \in {<<"-">>, <<"m","a","n","f","i">>}
    THEN LET op    == previous(toks, m.current).value
             right == Invoke("unary", toks, m.current, Null)
         IN IF ~right.ok THEN right
            ELSE LET last == previous(toks, right.current) IN
                 POk(right.current,
                     BinaryExpression(op,
                       NumericLiteral(PlusZero, last.line, last.column),
                       right.node, last.line, last.column))
    ELSE Invoke("call", toks, m.current, Null)

\* while (true) { if (match(PUNCTUATION) && previous().value === '(')
\*                  expr = finishCall(expr); else break; }
CallLoop(toks, cur, expr) ==
  LET m == match(toks, cur, "PUNCTUATION") IN
  IF m.matched /\ previous(toks, m.current).value = <<"(">>
    THEN LET c == Invoke("finishCall", toks, m.current, expr) IN
         IF ~c.ok THEN c ELSE CallLoop(toks, c.current, c.node)
    ELSE POk(m.current, expr)

\* call with at most one postfix argument list
call_Once(toks, cur) ==
  LET expr == Invoke("primary", toks, cur, Null)
  IN IF ~expr.ok THEN expr ELSE
  LET m == match(toks, expr.current, "PUNCTUATION") IN
  IF m.matched /\ previous(toks, m.current).value = <<"(">>
    THEN Invoke("finishCall", toks, m.current, expr.node)
    ELSE POk(m.current, expr.node)

call(toks, cur) ==
  LET expr == Invoke("primary", toks, cur, Null)
  IN IF ~expr.ok THEN expr ELSE CallLoop(toks, expr.current, expr.node)

\* do { list.push(expression()) }
\* while (match(PUNCTUATION) && previous().value === ',')
ExpressionList(toks, cur, list) ==
  LET e == Invoke("expression", toks, cur, Null)
  IN IF ~e.ok THEN e
     ELSE LET m == match(toks, e.current, "PUNCTUATION") IN
          IF m.matched /\ previous(toks, m.current).value = <<",">>
            THEN ExpressionList(toks, m.current, Append(list, e.node))
            ELSE POk(m.current, Append(list, e.node))

finishCall(toks, cur, callee) ==
  LET token == previous(toks, cur)
      args  == IF ~Invoke("check", toks, cur, <<"PUNCTUATION", <<")">>>>)
                 THEN ExpressionList(toks, cur, <<>>)
                 ELSE POk(cur, <<>>)
  IN IF ~args.ok THEN args ELSE
  LET close == consume(toks, args.current, "PUNCTUATION", ")",
                       "Expected \")\" after arguments")
  IN IF ~close.ok THEN close ELSE
  POk(close.current, CallExpression(callee, args.node, token.line, token.column))

primary(toks, cur) ==
  LET mNum == match(toks, cur, "NUMBER") IN
  IF mNum.matched
    THEN LET t == previous(toks, mNum.current) IN
         POk(mNum.current, NumericLiteral(parseFloat(t.value), t.line, t.column))
    ELSE
  LET mStr == match(toks, cur, "STRING") IN
  IF mStr.matched
    THEN LET t == previous(toks, mStr.current) IN
         POk(mStr.current, StringLiteral(t.value, t.line, t.column))
    ELSE
  LET mTrue == matchValue(toks, cur, "KEYWORD", <<"r","i","s","h","t","i","a">>) IN
  IF mTrue.matched
    THEN LET t == previous(toks, mTrue.current) IN
         POk(mTrue.current, BooleanLiteral(TRUE, t.line, t.column))
    ELSE
  LET mFalse == matchValue(toks, cur, "KEYWORD", <<"g","h","a","l","a","t">>) IN
  IF mFalse.matched
    THEN LET t == previous(toks, mFalse.current) IN
         POk(mFalse.current, BooleanLiteral(FALSE, t.line, t.column))
    ELSE
  LET mArr == match(toks, cur, "PUNCTUATION") IN
  IF mArr.matched /\ previous(toks, mArr.current).value = <<"[">>
    THEN Invoke("arrayLiteral", toks, mArr.current, Null)
    ELSE
  LET mGrp == match(toks, mArr.current, "PUNCTUATION") IN
  IF mGrp.matched /\ previous(toks, mGrp.current).value = <<"(">>
    THEN LET expr == Invoke("expression", toks, mGrp.current, Null)
         IN IF ~expr.ok THEN expr ELSE
            LET close == consume(toks, expr.current, "PUNCTUATION", ")",
                                 "Expected \")\" after expression")
            IN IF ~close.ok THEN close ELSE POk(close.current, expr.node)
    ELSE
  LET mId == match(toks, mGrp.current, "IDENTIFIER") IN
  IF mId.matched
    THEN LET t == previous(toks, mId.current) IN
         POk(mId.current, Identifier(t.value, t.line, t.column))
    ELSE PFail(mId.current,
               Err("Unexpected token", peek(toks, mId.current).value,
                   peek(toks, mId.current).line, peek(toks, mId.current).column))

arrayLiteral(toks, cur) ==
  LET token == previous(toks, cur)
      elements == IF ~Invoke("check", toks, cur, <<"PUNCTUATION", <<"]">>>>)
                    THEN ExpressionList(toks, cur, <<>>)
                    ELSE POk(cur, <<>>)
  IN IF ~elements.ok THEN elements ELSE
  LET close == consume(toks, elements.current, "PUNCTUATION", "]",
                       "Expected \"]\" after array elements")
  IN IF ~close.ok THEN close ELSE
  POk(close.current, ArrayLiteral(elements.node, token.line, token.column))

Invoke(method, toks, cur, arg) ==
  CASE method = "check"               -> check(toks, cur, arg[1], arg[2])
    [] method = "declaration"         -> declaration(toks, cur)
    [] method = "functionDeclaration" -> functionDeclaration(toks, cur)
    [] method = "statement"           -> statement(toks, cur)
    [] method = "ifStatement"         -> ifStatement(toks, cur)
    [] method = "whileStatement"      -> whileStatement(toks, cur)
    [] method = "forStatement"        -> forStatement(toks, cur)
    [] method = "returnStatement"     -> returnStatement(toks, cur)
    [] method = "blockStatement"      -> blockStatement(toks, cur)
    [] method = "expressionStatement" -> expressionStatement(toks, cur)
    [] method = "expression"          -> expression(toks, cur)
    [] method = "assignment"          -> assignment(toks, cur)
    [] method = "equality"            -> equality(toks, cur)
    [] method = "comparison"          -> comparison(toks, cur)
    [] method = "addition"            -> addition(toks, cur)
    [] method = "multiplication"      -> multiplication(toks, cur)
    [] method = "unary"               -> unary(toks, cur)
    [] method = "call"                -> call(toks, cur)
    [] method = "finishCall"          -> finishCall(toks, cur, arg)
    [] method = "primary"             -> primary(toks, cur)
    [] method = "arrayLiteral"        -> arrayLiteral(toks, cur)

\* while (!isAtEnd()) program.body.push(declaration())
RECURSIVE ProgramLoop(_, _, _)

\* program.body.push(d), d being the outcome of this.declaration()
ProgramPush(toks, d, body) ==
  IF ~d.ok THEN d ELSE ProgramLoop(toks, d.current, Append(body, d.node))

ProgramLoop(toks, cur, body) ==
  IF ~isAtEnd(toks, cur)
    THEN ProgramPush(toks, Invoke("declaration", toks, cur, Null), body)
    ELSE POk(cur, Program(body))

parse(toks) == ProgramLoop(toks, 0, <<>>)

(***************************************************************************)
(* interpreter-client.ts: runPashtoPlusPlus, up to the point where the     *)
(* program is handed to the Interpreter.                                   *)
(***************************************************************************)
NoResult == [output |-> <<>>, error |-> NoError]

\* catch (error) { return { output: '', error: error.message } }
Caught_MessageLost(e) == [output |-> <<>>, error |-> NoError]

Caught(e) == [output |-> <<>>, error |-> e]

(***************************************************************************)
(* Source texts.  A text is written as a sequence of fragments joined by   *)
(* one space.                                                              *)
(***************************************************************************)
MaxFrags == 3

MaxArgs == 3

MaxParams == 2

MaxLexFrags == 3

MaxWords == 2

MaxPrefixes == 2

RECURSIVE Join(_)
Join(frags) ==
  IF Len(frags) = 0 THEN <<>>
  ELSE IF Len(frags) = 1 THEN frags[1]
  ELSE frags[1] \o <<" ">> \o Join(Tail(frags))

SeqsUpTo(S, n) == UNION {[1..k -> S] : k \in 0..n}

\* Every text of at most MaxFrags words over a small vocabulary.
Vocabulary ==
  { <<"x">>, <<"5">>, <<"(">>, <<")">>, <<"{">>, <<"}">>, <<",">>, <<";">>, <<"=">>, <<"*">>,
    <<"+">>, <<"r","a","k","a">> }

SmallSources == {Join(fs) : fs \in SeqsUpTo(Vocabulary, MaxFrags)}

\* a OP b
BinaryOperators ==
  { <<"=","=">>, <<"!","=">>, <<">">>, <<"<">>, <<">","=">>, <<"<","=">>, <<"+">>, <<"j","a","m","a">>, <<"-">>,
    <<"m","a","n","f","i">>, <<"_">>, <<"*">>, <<"z","a","r","a","b">>, <<"/">>, <<"t","a","k","s","e","e","m">>, <<"%">>,
    <<"t","a","k","s","e","e","m","b","a","k","i">> }

Operands == { <<"x">>, <<"s","h","u","m","a","r">>, <<"5">>, <<"3",".","1","4">>, <<"\"","J","i","\"">>, <<"r","i","s","h","t","i","a">> }

BinarySources ==
  {Join(<<a, op, b>>) : a \in Operands, op \in BinaryOperators, b \in Operands}

\* x = e, a = b = e, and targets that are no identifier
AssignSources ==
  {Join(<<t, <<"=">>, e>>) :
     t \in Operands \cup { <<"f","(",")">>, <<"[","1","]">> }, e \in Operands}
  \cup {Join(<<<<"a">>, <<"=">>, <<"b">>, <<"=">>, e>>) : e \in Operands}
  \cup {Join(<<t, <<"=">>, <<"=">>, <<"=">>, <<"=">>, <<"=">>, e>>) :
          t \in { <<"x">>, <<"5">> }, e \in Operands}

\* f(e1, ..., en)
Arguments == { <<"a">>, <<"1">>, <<"\"","s","\"">> }

RECURSIVE CommaList(_)
CommaList(es) ==
  IF Len(es) = 0 THEN <<>>
  ELSE IF Len(es) = 1 THEN es[1]
  ELSE es[1] \o <<","," ">> \o CommaList(Tail(es))

CallSources ==
  {<<"f","(">> \o CommaList(es) \o <<")">> : es \in SeqsUpTo(Arguments, MaxArgs)}
  \cup {<<"f","(",")","(",")">>, <<"o","l","i","k","a","(","\"","S","a","l","a","m","\""," ","_"," ","\"","J","i","\"",")">>, <<"o","l","i","k","a","(","\"","S","a","l","a","m"," ","J","i","\"",")">>,
        <<"o","g","h","w","a","r","a","(","\"","S","t","a"," ","n","a","w","m"," ","d","a","?"," ","\"",")">>}

\* opejana name(p1, ..., pn) { body }
ParamNames == { <<"a">>, <<"b">> }

FunctionBodies == { <<>>, <<"r","a","k","a">>, <<"r","a","k","a"," ","a">>, <<"r","a","k","a"," ","a"," ","+"," ","b">>, <<"r","a","k","a",";">> }

FunctionSources ==
  {<<"o","p","e","j","a","n","a"," ","j","o","r","(">> \o CommaList(ps) \o <<")"," ","{"," ">> \o body \o <<" ","}">> :
     ps \in SeqsUpTo(ParamNames, MaxParams), body \in FunctionBodies}
  \cup {<<"o","p","e","j","a","n","a"," ","j","o","r","(","a",","," ","b",")"," ","{"," ","r","a","k","a"," ","a"," ","+"," ","b"," ","}","\n","o","l","i","k","a","(","j","o","r","(","3",","," ","4",")",")">>,
        <<"o","p","e","j","a","n","a"," ","f","(",")"," ","{"," ","r","a","k","a"," ","}">>}

\* ko (test) { ... } [geni { ... }], kala (test) { ... }, che (v we it) { ... }
Tests == { <<"x">>, <<"r","i","s","h","t","i","a">>, <<"s","h","u","m","a","r"," ",">"," ","5">>, <<"f","(","x",")">> }

Bodies == { <<>>, <<"x">>, <<"o","l","i","k","a","(","x",")">> }

ControlSources ==
  {<<"k","o"," ","(">> \o t \o <<")"," ","{"," ">> \o b \o <<" ","}">> : t \in Tests, b \in Bodies}
  \cup {<<"k","o"," ","(">> \o t \o <<")"," ","{"," ">> \o b \o <<" ","}"," ","g","e","n","i"," ","{"," ">> \o b \o <<" ","}">> :
          t \in Tests, b \in Bodies}
  \cup {<<"k","a","l","a"," ","(">> \o t \o <<")"," ","{"," ">> \o b \o <<" ","}">> : t \in Tests, b \in Bodies}
  \cup {<<"c","h","e"," ","(","v"," ","w","e"," ">> \o t \o <<")"," ","{"," ">> \o b \o <<" ","}">> : t \in Tests, b \in Bodies}

\* A construct with one of its tokens replaced
Replacements ==
  { <<"(">>, <<")">>, <<"{">>, <<"}">>, <<"[">>, <<"]">>, <<",">>, <<";">>, <<".">>, <<"x">>,
    <<"5">>, <<"+">>, <<"w","e">>, <<"W","E">>, <<"k","o">>, <<"g","e","n","i">>, <<"\"","s">>, <<"@">> }

\* The constructs, each with the places of the punctuation its rule requires
RequiredPunctuation ==
  { [construct |-> << <<"o","p","e","j","a","n","a">>, <<"f">>, <<"(">>, <<")">>, <<"{">>, <<"}">> >>,
     at |-> {3, 4, 5, 6}],
    [construct |-> << <<"k","o">>, <<"(">>, <<"x">>, <<")">>, <<"{">>, <<"}">> >>,
     at |-> {2, 4, 5, 6}],
    [construct |-> << <<"k","a","l","a">>, <<"(">>, <<"x">>, <<")">>, <<"{">>, <<"}">> >>,
     at |-> {2, 4, 5, 6}],
    [construct |-> << <<"c","h","e">>, <<"(">>, <<"v">>, <<"w","e">>, <<"x">>, <<")">>, <<"{">>, <<"}">> >>,
     at |-> {2, 6, 7, 8}],
    [construct |-> << <<"f">>, <<"(">>, <<")">> >>, at |-> {3}],
    [construct |-> << <<"[">>, <<"1">>, <<"]">>, <<";">> >>, at |-> {3}] }

Constructs ==
  {c.construct : c \in RequiredPunctuation}
  \cup
  { << <<"o","p","e","j","a","n","a">>, <<"f">>, <<"(">>, <<"a">>, <<")">>, <<"{">>, <<"}">> >>,
    << <<"k","o">>, <<"(">>, <<"(">>, <<"x">>, <<")">>, <<")">>, <<"{">>, <<"}">> >>,
    << <<"{">>, <<"c","h","e">>, <<"(">>, <<"v">>, <<"w","e">>, <<"x">>, <<")">>, <<"{">>, <<"}">>, <<"}">> >> }

Replace(fs, i, r) == [j \in 1..Len(fs) |-> IF j = i THEN r ELSE fs[j]]

ReplacedSources ==
  UNION {{Join(Replace(c, i, r)) : i \in 1..Len(c), r \in Replacements} :
           c \in Constructs}

\* The same, one token per line
RECURSIVE JoinLines(_)
JoinLines(frags) ==
  IF Len(frags) = 0 THEN <<>>
  ELSE IF Len(frags) = 1 THEN frags[1]
  ELSE frags[1] \o <<"\n">> \o JoinLines(Tail(frags))

ReplacedLineSources ==
  UNION {{JoinLines(Replace(c, i, r)) : i \in 1..Len(c), r \in Replacements} :
           c \in Constructs}

\* A construct cut short
PrefixSources ==
  UNION {{Join(SubSeq(c, 1, k)) : k \in 0..Len(c)} : c \in Constructs}
  \cup UNION {{JoinLines(SubSeq(c, 1, k)) : k \in 0..Len(c)} : c \in Constructs}

\* Texts written character by character: every concatenation of at most
\* MaxLexFrags pieces, with no separator.
LexFragments ==
  { <<"5">>, <<".">>, <<"x">>, <<" ">>, <<"\n">>, <<"k","o">>, <<"!">>, <<"=">>, <<"/">>, <<"\"">>,
    <<"-">>, <<";">> }

RECURSIVE Concat(_)
Concat(frags) ==
  IF Len(frags) = 0 THEN <<>> ELSE frags[1] \o Concat(Tail(frags))

LexSources ==
  {Concat(fs) : fs \in SeqsUpTo(LexFragments, MaxLexFrags)}
  \cup { <<"5"," ","+"," ","3">> }

\* Words in several letter cases, separated by one space
CaseWords ==
  { <<"k","o">>, <<"K","O">>, <<"K","o">>, <<"j","a","m","a">>, <<"J","A","M","A">>, <<"t","a","k","s","e","e","m","B","a","k","i">>, <<"x">>,
    <<"X">>, <<"K","o","x">>, <<"5">> }

CaseSources == {Join(ws) : ws \in SeqsUpTo(CaseWords, MaxWords)}

\* Prefix minus and postfix calls
PrefixOperators == { <<"-">>, <<"m","a","n","f","i">> }

UnaryOperands ==
  { <<"x">>, <<"5">>, <<"3",".","1","4">>, <<"\"","J","i","\"">>, <<"r","i","s","h","t","i","a">>, <<"f","(",")">>, <<"f","(",")","(",")">> }

\* Operands written with brackets or arguments
BracketedOperands ==
  { <<"(","x",")">>, <<"f","(","a",")">>, <<"[","1","]">>, <<"[","]">> }

UnarySources ==
  UnaryOperands \cup BracketedOperands
  \cup {Join(<<op, e>>) : op \in PrefixOperators, e \in BracketedOperands}
  \cup {Join(ops \o <<e>>) :
          ops \in SeqsUpTo(PrefixOperators, MaxPrefixes), e \in UnaryOperands}
  \cup {<<"-">> \o e : e \in UnaryOperands}

\* A number after each white space character, at the start and after a name
SpaceSources ==
  {<<w, "5">> : w \in WhiteSpace} \cup {<<"x", w, "5">> : w \in WhiteSpace}

\* Numerals a double holds exactly, rounds, or cannot tell apart
NumeralSources ==
  { <<"5",".">>, <<"0",".","1">>, <<"1",".","2",".","3">>,
    <<"2","1","4","7","4","8","3","6","4","8">>,
    <<"1",".","0","0","0","0","0","0","0","0","0","1">>,
    <<"9","0","0","7","1","9","9","2","5","4","7","4","0","9","9","2">>,
    <<"9","0","0","7","1","9","9","2","5","4","7","4","0","9","9","3">>,
    <<"1",".","0","0","0","0","0","0","0","0","0","0","0","0","0","0","0","1">> }

Sources ==
  SmallSources \cup BinarySources \cup AssignSources \cup CallSources
    \cup FunctionSources \cup ControlSources \cup ReplacedSources
    \cup ReplacedLineSources \cup PrefixSources \cup LexSources
    \cup CaseSources \cup UnarySources \cup SpaceSources
    \cup NumeralSources

(***************************************************************************)
(* The run                                                                 *)
(***************************************************************************)
\* A piece of the text the page shows: characters, or the message of an error
Text(chars) == [text |-> chars, error |-> NoError]

ErrorText(e) == [text |-> <<>>, error |-> e]

NoInterpreter == [created |-> FALSE, output |-> <<>>]

\* runCode has been called for src and is about to call runPashtoPlusPlus:
\* setIsRunning(true); setOutput(""); setWaitingForInput(false)
Started(src) ==
  /\ code = src
  /\ pc = "tokenize"
  /\ tokens = <<>>
  /\ program = Null
  /\ result = NoResult
  /\ interpreter = NoInterpreter
  /\ inputCalls = 0
  /\ isRunning = TRUE
  /\ waitingForInput = FALSE
  /\ output = <<>>
  /\ resolveInput = "undefined"
  /\ locale = "en"
  /\ detached = 0
  /\ runs = 1
  /\ pending = 0

\* The front end applied to every source text
Init == \E src \in Sources : Started(src)

\* const tokens = new Lexer(code).tokenize()
Tokenize ==
  /\ pc = "tokenize"
  /\ LET r == tokenize(code) IN
       IF r.ok
         THEN /\ tokens' = r.tokens
              /\ pc' = "parse"
              /\ UNCHANGED result
         ELSE /\ result' = Caught(r.error)
              /\ pc' = "done"
              /\ UNCHANGED tokens
  /\ UNCHANGED <<code, program, interpreter, inputCalls, page, counts>>

\* const program = new Parser(tokens).parse()
Parse ==
  /\ pc = "parse"
  /\ \E r \in {parse(tokens)} :
       IF r.ok
         THEN /\ program' = r.node
              /\ pc' = "interpret"
              /\ UNCHANGED result
         ELSE /\ result' = Caught(r.error)
              /\ pc' = "done"
              /\ UNCHANGED program
  /\ UNCHANGED <<code, tokens, interpreter, inputCalls, page, counts>>

Next == Tokenize \/ Parse

Spec == Init /\ [][Next]_vars

(***************************************************************************)
(* The parser on its own.  new Parser(tokens) takes any array of tokens,   *)
(* those Lexer.tokenize returns and those made by hand alike.              *)
(***************************************************************************)
MaxTokens == 3

\* The kind and value of a token made by hand: every word and character the
\* parser asks for, a keyword that is `ko` only after toLowerCase (U+212A,
\* the Kelvin sign, and a capital O), numerals the lexer does not write, and
\* an end-of-input token before the last one
HandTokens ==
  { <<"KEYWORD", <<"o","p","e","j","a","n","a">>>>, <<"KEYWORD", <<"k","o">>>>,
    <<"KEYWORD", <<"\\u212A","O">>>>, <<"KEYWORD", <<"k","a","l","a">>>>,
    <<"KEYWORD", <<"c","h","e">>>>, <<"KEYWORD", <<"w","e">>>>,
    <<"KEYWORD", <<"r","a","k","a">>>>, <<"KEYWORD", <<"g","e","n","i">>>>,
    <<"KEYWORD", <<"r","i","s","h","t","i","a">>>>,
    <<"IDENTIFIER", <<"x">>>>, <<"NUMBER", <<"5">>>>,
    <<"NUMBER", <<"-","1","e","5">>>>, <<"STRING", <<"s">>>>,
    <<"OPERATOR", <<"+">>>>, <<"OPERATOR", <<"-">>>>, <<"OPERATOR", <<"=">>>>,
    <<"PUNCTUATION", <<"(">>>>, <<"PUNCTUATION", <<")">>>>,
    <<"PUNCTUATION", <<"{">>>>, <<"PUNCTUATION", <<"}">>>>,
    <<"PUNCTUATION", <<"[">>>>, <<"PUNCTUATION", <<"]">>>>,
    <<"PUNCTUATION", <<",">>>>, <<"PUNCTUATION", <<";">>>>,
    <<"EOF", <<>>>> }

\* The tokens of the kinds and values ts, one after the other on line 1, and
\* the end-of-input token after them
HandMade(ts) ==
  [i \in 1..(Len(ts) + 1) |->
     IF i <= Len(ts) THEN Token(ts[i][1], ts[i][2], 1, i)
     ELSE Token("EOF", <<>>, 1, i)]

\* Every array of at most MaxTokens tokens made by hand and an end-of-input
\* token
TokenLists == {HandMade(ts) : ts \in SeqsUpTo(HandTokens, MaxTokens)}

MaxBlockTokens == 3

\* The tokens that open the block of a condition, its keyword written with
\* U+212A, of a loop and of a function
BlockOpenings ==
  { << <<"KEYWORD", <<"\\u212A","O">>>>, <<"PUNCTUATION", <<"(">>>>,
       <<"KEYWORD", <<"r","i","s","h","t","i","a">>>>,
       <<"PUNCTUATION", <<")">>>>, <<"PUNCTUATION", <<"{">>>> >>,
    << <<"KEYWORD", <<"k","a","l","a">>>>, <<"PUNCTUATION", <<"(">>>>,
       <<"KEYWORD", <<"r","i","s","h","t","i","a">>>>,
       <<"PUNCTUATION", <<")">>>>, <<"PUNCTUATION", <<"{">>>> >>,
    << <<"KEYWORD", <<"o","p","e","j","a","n","a">>>>,
       <<"IDENTIFIER", <<"x">>>>, <<"PUNCTUATION", <<"(">>>>,
       <<"PUNCTUATION", <<")">>>>, <<"PUNCTUATION", <<"{">>>> >> }

\* The kind and value of a token made by hand inside a block
BlockTokens ==
  { <<"KEYWORD", <<"r","a","k","a">>>>, <<"KEYWORD", <<"\\u212A","O">>>>,
    <<"IDENTIFIER", <<"x">>>>, <<"NUMBER", <<"5">>>>, <<"OPERATOR", <<"=">>>>,
    <<"PUNCTUATION", <<"(">>>>, <<"PUNCTUATION", <<"{">>>>,
    <<"PUNCTUATION", <<"}">>>>, <<"PUNCTUATION", <<";">>>>, <<"EOF", <<>>>> }

\* Every array of a block opened, at most MaxBlockTokens tokens made by hand
\* in it, the closing brace and an end-of-input token
BlockLists ==
  {HandMade(open \o ts \o << <<"PUNCTUATION", <<"}">>>> >>) :
     open \in BlockOpenings, ts \in SeqsUpTo(BlockTokens, MaxBlockTokens)}

\* The arrays Lexer.tokenize returns for the source texts
LexerLists == {tokenize(src).tokens : src \in {s \in Sources : tokenize(s).ok}}

\* new Parser(ts), about to parse
Constructed(ts) ==
  /\ code = <<>>
  /\ pc = "parse"
  /\ tokens = ts
  /\ program = Null
  /\ result = NoResult
  /\ interpreter = NoInterpreter
  /\ inputCalls = 0
  /\ isRunning = TRUE
  /\ waitingForInput = FALSE
  /\ output = <<>>
  /\ resolveInput = "undefined"
  /\ locale = "en"
  /\ detached = 0
  /\ runs = 1
  /\ pending = 0

ParserInit ==
  \E ts \in TokenLists \cup BlockLists \cup LexerLists : Constructed(ts)

ParserNext == Parse

ParserSpec == ParserInit /\ [][ParserNext]_vars

(***************************************************************************)
(* The page.  A run is one call of runCode: it goes through tokenize,      *)
(* parse and the Interpreter, resolves to a result, and the page shows it. *)
(* The Interpreter is given by its contract: interpret(program) appends    *)
(* lines to its output, asks for input through the callback it was created *)
(* with, and resolves to { output, error? }.                               *)
(***************************************************************************)
MaxOutputs == 2

MaxInputs == 2

\* What olika(5) appends to the output
OutputLine == <<"5", "\n">>

\* What the user types into the input field
InputLines == { <<>>, <<"a">> }

RuntimeError == Err("RuntimeError", <<>>, 1, 1)

\* const EXAMPLES = { hello: `...`, counter: `...`, factorial: `...` }
EXAMPLES ==
  [hello |->
     << "/","/"," ","H","e","l","l","o"," ","W","o","r","l","d"," ","e","x","a","m","p","l","e","\n",
        "o","l","i","k","a","(","\"","S","a","l","a","m"," ","J","i","\"",")","\n" >>,
   counter |->
     << "/","/"," ","C","o","u","n","t","e","r"," ","e","x","a","m","p","l","e","\n",
        "s","h","u","m","a","r"," ","="," ","0","\n",
        "k","a","l","a"," ","(","s","h","u","m","a","r"," ","<"," ","3",")"," ","{","\n",
        " "," ","o","l","i","k","a","(","s","h","u","m","a","r",")","\n",
        " "," ","s","h","u","m","a","r"," ","="," ","s","h","u","m","a","r"," ","+"," ","1","\n",
        "}","\n" >>,
   factorial |->
     << "/","/"," ","F","a","c","t","o","r","i","a","l"," ","f","u","n","c","t","i","o","n"," ","e","x","a","m","p","l","e","\n",
        "o","p","e","j","a","n","a"," ","f","a","c","t","o","r","i","a","l","(","n",")"," ","{","\n",
        " "," ","k","o"," ","(","n"," ","<","="," ","1",")"," ","{","\n",
        " "," "," "," ","r","a","k","a"," ","1","\n",
        " "," ","}"," ","g","e","n","i"," ","{","\n",
        " "," "," "," ","r","a","k","a"," ","n"," ","*"," ","f","a","c","t","o","r","i","a","l","(","n"," ","-"," ","1",")","\n",
        " "," ","}","\n",
        "}","\n",
        "\n",
        "o","l","i","k","a","(","f","a","c","t","o","r","i","a","l","(","5",")",")","\n" >>]

\* What the user types into the editor
HostSources ==
  { <<>>, <<"x">>, <<"5">>, <<"-"," ","x">>, <<"f","(",")">>, <<"@">>,
    <<"\"","J","i">>, <<"x"," ","=">>, <<"o","l","i","k","a","(","x",")">> }

\* const locales = ['en', 'ps']
Locales == {"en", "ps"}

\* The page as mounted under /en or /ps, before any run:
\* useState(EXAMPLES.hello), useState(""), useState(false)
HostInit ==
  /\ code = EXAMPLES.hello
  /\ pc = "idle"
  /\ tokens = <<>>
  /\ program = Null
  /\ result = NoResult
  /\ interpreter = NoInterpreter
  /\ inputCalls = 0
  /\ isRunning = FALSE
  /\ waitingForInput = FALSE
  /\ output = <<>>
  /\ resolveInput = "undefined"
  /\ locale \in Locales
  /\ detached = 0
  /\ runs = 0
  /\ pending = 0

\* An event of the page is handled while no code runs: between runs, and
\* while a run awaits input, the one point where execution is suspended.
\* runPashtoPlusPlus runs from new Lexer(code) to its first await in one
\* piece, and runCode goes on as soon as the result is there.
Handling == pc \in {"idle", "waiting"}

\* setExample(example): setCode(EXAMPLES[example])
SetExample ==
  /\ Handling
  /\ \E example \in DOMAIN EXAMPLES : code' = EXAMPLES[example]
  /\ UNCHANGED <<pc, run, page, counts>>

\* <CodeEditor value={code} onChange={setCode} />
SetCode ==
  /\ Handling
  /\ \E value \in HostSources : code' = value
  /\ UNCHANGED <<pc, run, page, counts>>

\* <button onClick={runCode} disabled={isRunning || waitingForInput}>
RunDisabled == isRunning \/ waitingForInput

\* runCode, up to the call of runPashtoPlusPlus
RunCode ==
  /\ ~RunDisabled
  /\ isRunning' = TRUE
  /\ output' = <<>>
  /\ waitingForInput' = FALSE
  /\ pc' = "tokenize"
  /\ tokens' = <<>>
  /\ program' = Null
  /\ result' = NoResult
  /\ interpreter' = NoInterpreter
  /\ inputCalls' = 0
  /\ runs' = runs + 1
  /\ UNCHANGED <<code, resolveInput, locale, detached, pending>>

\* const interpreter = new Interpreter(inputCallback)
CreateInterpreter ==
  /\ pc = "interpret"
  /\ interpreter' = [created |-> TRUE, output |-> <<>>]
  /\ pc' = "running"
  /\ UNCHANGED <<code, tokens, program, result, inputCalls, page, counts>>

\* olika(...): one more line of output
Emit ==
  /\ pc = "running"
  /\ Len(interpreter.output) < MaxOutputs * Len(OutputLine)
  /\ interpreter' = [interpreter EXCEPT !.output = @ \o OutputLine]
  /\ UNCHANGED <<code, pc, tokens, program, result, inputCalls, page, counts>>

\* oghwara(...): the interpreter awaits inputCallback(), which is
\*   new Promise(resolve => { setWaitingForInput(true);
\*                            window.__resolveInput = resolve })
RequestInput ==
  /\ pc = "running"
  /\ inputCalls < MaxInputs
  /\ inputCalls' = inputCalls + 1
  /\ waitingForInput' = TRUE
  /\ resolveInput' = "pending"
  /\ pc' = "waiting"
  /\ pending' = pending + 1
  /\ UNCHANGED <<code, tokens, program, result, interpreter, isRunning, output,
                 locale, detached, runs>>

\* handleInputSubmit: resolveInput(inputValue) settles the promise the
\* interpreter awaits; a resolver that was already called does nothing.
\* While waitingForInput holds, the resolver stashed is never that of a
\* detached run: the Home that is mounted sets the flag only together with
\* window.__resolveInput.
HandleInputSubmit ==
  \E inputValue \in InputLines :
    IF waitingForInput /\ resolveInput \in {"pending", "settled"}
      THEN /\ pc' = IF resolveInput = "pending" THEN "running" ELSE pc
           /\ resolveInput' = "settled"
           /\ output' = Append(output, Text(inputValue \o <<"\n">>))
           /\ waitingForInput' = FALSE
           /\ pending' = IF resolveInput = "pending" THEN pending - 1 ELSE pending
           /\ UNCHANGED <<code, run, isRunning, locale, detached, runs>>
      ELSE UNCHANGED vars

\* interpret(program) resolves without an error
Finish ==
  /\ pc = "running"
  /\ result' = [output |-> interpreter.output, error |-> NoError]
  /\ pc' = "done"
  /\ UNCHANGED <<code, tokens, program, interpreter, inputCalls, page, counts>>

\* The first runtime error ends the run; the output so far is returned with it
Fail ==
  /\ pc = "running"
  /\ result' = [output |-> interpreter.output, error |-> RuntimeError]
  /\ pc' = "done"
  /\ UNCHANGED <<code, tokens, program, interpreter, inputCalls, page, counts>>

\* runCode, after await runPashtoPlusPlus(code, inputCallback):
\*   if (result.error) setOutput(prev => prev + "\n" + result.error)
\*   else setOutput(prev => prev + "\n" + result.output)
\*   finally { setIsRunning(false); setWaitingForInput(false) }
ShowResult ==
  /\ pc = "done"
  /\ output' = output \o << Text(<<"\n">>),
                            IF result.error # NoError
                              THEN ErrorText(result.error)
                              ELSE Text(result.output) >>
  /\ isRunning' = FALSE
  /\ waitingForInput' = FALSE
  /\ runs' = runs - 1
  /\ pc' = "idle"
  /\ UNCHANGED <<code, run, resolveInput, locale, detached, pending>>

(***************************************************************************)
(* LanguageSwitcher.  router.replace(pathname, { locale }) goes to the     *)
(* same page under the other locale.  Home is a child of the [locale]      *)
(* segment of the route: the navigation either keeps the Home that is      *)
(* mounted or mounts a new one in its place, with the initial values of    *)
(* useState.  A run the old Home started is not ended by that, and         *)
(* window.__resolveInput is the same for both.                             *)
(***************************************************************************)
MaxDetached == 1

\* A new Home in the place of the old one.  A run of the old one that awaits
\* input stays as it is: its promise is unresolved, its resolver is still in
\* window.__resolveInput, and runCode has not come to its finally.
Remount ==
  /\ code' = EXAMPLES.hello
  /\ output' = <<>>
  /\ isRunning' = FALSE
  /\ waitingForInput' = FALSE
  /\ pc' = "idle"
  /\ tokens' = <<>>
  /\ program' = Null
  /\ result' = NoResult
  /\ interpreter' = NoInterpreter
  /\ inputCalls' = 0
  /\ IF pc = "waiting"
       THEN /\ detached < MaxDetached
            /\ detached' = detached + 1
            /\ resolveInput' = "detached"
       ELSE UNCHANGED <<detached, resolveInput>>

\* toggleLocale: const newLocale = locale === "en" ? "ps" : "en";
\*               router.replace(pathname, { locale: newLocale })
ToggleLocale ==
  /\ Handling
  /\ locale' = IF locale = "en" THEN "ps" ELSE "en"
  /\ \/ UNCHANGED <<code, pc, run, isRunning, waitingForInput, output,
                    resolveInput, detached>>
     \/ Remount
  /\ UNCHANGED counts

HostNext ==
  \/ SetExample
  \/ SetCode
  \/ RunCode
  \/ Tokenize
  \/ Parse
  \/ CreateInterpreter
  \/ Emit
  \/ RequestInput
  \/ HandleInputSubmit
  \/ Finish
  \/ Fail
  \/ ShowResult
  \/ ToggleLocale

HostSpec == HostInit /\ [][HostNext]_vars

(***************************************************************************)
(* The shape of a tree: the node kinds and their contents, without the     *)
(* line and column every node carries.                                     *)
(***************************************************************************)
RECURSIVE Shape(_)
ShapeSeq(ns) == [i \in DOMAIN ns |-> Shape(ns[i])]

Shape(n) ==
  CASE n.type = "null" -> <<"null">>
    [] n.type = "Program" -> <<"Program", ShapeSeq(n.body)>>
    [] n.type = "NumericLiteral" -> <<"NumericLiteral", n.value>>
    [] n.type = "StringLiteral" -> <<"StringLiteral", n.value>>
    [] n.type = "BooleanLiteral" -> <<"BooleanLiteral", n.value>>
    [] n.type = "Identifier" -> <<"Identifier", n.name>>
    [] n.type = "ArrayLiteral" -> <<"ArrayLiteral", ShapeSeq(n.elements)>>
    [] n.type = "BinaryExpression" ->
         <<"BinaryExpression", n.operator, Shape(n.left), Shape(n.right)>>
    [] n.type = "AssignmentExpression" ->
         <<"AssignmentExpression", Shape(n.left), Shape(n.right)>>
    [] n.type = "CallExpression" ->
         <<"CallExpression", Shape(n.callee), ShapeSeq(n.arguments)>>
    [] n.type = "ExpressionStatement" ->
         <<"ExpressionStatement", Shape(n.expression)>>
    [] n.type = "ReturnStatement" -> <<"ReturnStatement", Shape(n.argument)>>
    [] n.type = "BlockStatement" -> <<"BlockStatement", ShapeSeq(n.body)>>
    [] n.type = "IfStatement" ->
         <<"IfStatement", Shape(n.test), Shape(n.consequent), Shape(n.alternate)>>
    [] n.type = "WhileStatement" ->
         <<"WhileStatement", Shape(n.test), Shape(n.body)>>
    [] n.type = "ForStatement" ->
         <<"ForStatement", n.variable, Shape(n.iterable), Shape(n.body)>>
    [] n.type = "FunctionDeclaration" ->
         <<"FunctionDeclaration", n.name, n.params, Shape(n.body)>>

\* The run is past the parser: it threw, or the program went to the Interpreter.
Parsed == pc \in {"interpret", "done"} /\ tokens # <<>>

Accepted == pc = "interpret" /\ result.error = NoError

Rejected == pc = "done" /\ tokens # <<>> /\ program = Null /\ result.error # NoError

\* What each operand, argument, test and body of the source sets stands for.
OperandShape(a) ==
  CASE a = <<"x">> -> <<"Identifier", <<"x">>>>
    [] a = <<"a">> -> <<"Identifier", <<"a">>>>
    [] a = <<"b">> -> <<"Identifier", <<"b">>>>
    [] a = <<"s","h","u","m","a","r">> -> <<"Identifier", <<"s","h","u","m","a","r">>>>
    [] a = <<"5">> -> <<"NumericLiteral", ToDouble(<<5>>, <<1>>)>>
    [] a = <<"1">> -> <<"NumericLiteral", ToDouble(<<1>>, <<1>>)>>
    [] a = <<"3",".","1","4">> -> <<"NumericLiteral", ToDouble(<<314>>, <<100>>)>>
    [] a = <<"\"","J","i","\"">> -> <<"StringLiteral", <<"J","i">>>>
    [] a = <<"\"","s","\"">> -> <<"StringLiteral", <<"s">>>>
    [] a = <<"r","i","s","h","t","i","a">> -> <<"BooleanLiteral", TRUE>>
    [] a = <<"s","h","u","m","a","r"," ",">"," ","5">> ->
         <<"BinaryExpression", <<">">>, <<"Identifier", <<"s","h","u","m","a","r">>>>,
           <<"NumericLiteral", ToDouble(<<5>>, <<1>>)>> >>
    [] a = <<"f","(","x",")">> ->
         <<"CallExpression", <<"Identifier", <<"f">>>>, << <<"Identifier", <<"x">>>> >> >>

OneStatement(shape) == <<"Program", << <<"ExpressionStatement", shape>> >> >>

----------------------------------------------------------------------------
(* C1: a built-in called by name with a parenthesised argument list is     *)
(* accepted by the tokenizer and the parser as a call expression: the run  *)
(* of olika("Salam" _ "Ji"), olika("Salam Ji") or oghwara("...") ends with *)
(* no error, the program being one statement whose expression is a call.   *)
BuiltinCallSources ==
  {<<"o","l","i","k","a","(","\"","S","a","l","a","m","\""," ","_"," ","\"","J","i","\"",")">>, <<"o","l","i","k","a","(","\"","S","a","l","a","m"," ","J","i","\"",")">>, <<"o","g","h","w","a","r","a","(","\"","S","t","a"," ","n","a","w","m"," ","d","a","?"," ","\"",")">>}

C1_BuiltinCallAccepted ==
  (code \in BuiltinCallSources /\ pc \in {"interpret", "done"}) =>
    /\ Accepted
    /\ Len(program.body) = 1
    /\ program.body[1].type = "ExpressionStatement"
    /\ program.body[1].expression.type = "CallExpression"

(* C2: for every binary operator OP and primary operands a and b, the      *)
(* program `a OP b` parses to exactly one expression statement whose       *)
(* expression is BinaryExpression(OP, a, b).                               *)
C2_BinaryExpressionParsed ==
  \A a \in Operands, op \in BinaryOperators, b \in Operands :
    (code = Join(<<a, op, b>>) /\ Parsed) =>
      /\ Accepted
      /\ Shape(program) =
           OneStatement(<<"BinaryExpression", op, OperandShape(a), OperandShape(b)>>)

(* C3: `x = e` parses to AssignmentExpression(x, e), and assignment is     *)
(* right-associative: `a = b = e` parses to the assignment to a of the     *)
(* assignment `b = e`.                                                     *)
C3_AssignmentParsed ==
  \A e \in Operands :
    /\ (code = Join(<<<<"x">>, <<"=">>, e>>) /\ Parsed) =>
         /\ Accepted
         /\ Shape(program) =
              OneStatement(<<"AssignmentExpression", <<"Identifier", <<"x">>>>,
                             OperandShape(e)>>)
    /\ (code = Join(<<<<"a">>, <<"=">>, <<"b">>, <<"=">>, e>>) /\ Parsed) =>
         /\ Accepted
         /\ Shape(program) =
              OneStatement(<<"AssignmentExpression", <<"Identifier", <<"a">>>>,
                             <<"AssignmentExpression", <<"Identifier", <<"b">>>>,
                               OperandShape(e)>> >>)

(* C4: whenever the left side of `=` is not a bare identifier (`5 = 3`,    *)
(* `f() = 1`), parse throws the invalid-assignment-target error and no     *)
(* Program is returned.                                                    *)
NonIdentifierTargets ==
  { <<"5">>, <<"3",".","1","4">>, <<"\"","J","i","\"">>, <<"r","i","s","h","t","i","a">>, <<"f","(",")">>, <<"[","1","]">> }

C4_InvalidTargetRejected ==
  \A t \in NonIdentifierTargets, e \in Operands :
    (code = Join(<<t, <<"=">>, e>>) /\ Parsed) =>
      /\ Rejected
      /\ result.error.message = "Invalid assignment target"

(* C5: for every n >= 1, the call `f(e1, ..., en)` parses to one           *)
(* CallExpression with callee f and the n arguments in source order.       *)
C5_CallArgumentsParsed ==
  \A es \in SeqsUpTo(Arguments, MaxArgs) :
    (Len(es) >= 1 /\ code = <<"f","(">> \o CommaList(es) \o <<")">> /\ Parsed) =>
      /\ Accepted
      /\ Shape(program) =
           OneStatement(<<"CallExpression", <<"Identifier", <<"f">>>>,
                          [i \in 1..Len(es) |-> OperandShape(es[i])]>>)

(* C6: for every n >= 0, `opejana jor(p1, ..., pn) { body }` parses to one *)
(* FunctionDeclaration with the name, the n parameter names in order and   *)
(* the block body; the program of the README, the declaration of jor(a, b) *)
(* followed by olika(jor(3, 4)), is accepted.                              *)
C6_FunctionDeclarationParsed ==
  /\ \A ps \in SeqsUpTo(ParamNames, MaxParams), body \in FunctionBodies :
       (code = <<"o","p","e","j","a","n","a"," ","j","o","r","(">> \o CommaList(ps) \o <<")"," ","{"," ">> \o body \o <<" ","}">>
          /\ Parsed) =>
         /\ Accepted
         /\ Len(program.body) = 1
         /\ program.body[1].type = "FunctionDeclaration"
         /\ program.body[1].name = <<"j","o","r">>
         /\ program.body[1].params = ps
         /\ program.body[1].body.type = "BlockStatement"
         /\ Len(program.body[1].body.body) = IF body = <<>> THEN 0 ELSE 1
  /\ (code = <<"o","p","e","j","a","n","a"," ","j","o","r","(","a",","," ","b",")"," ","{"," ","r","a","k","a"," ","a"," ","+"," ","b"," ","}","\n","o","l","i","k","a","(","j","o","r","(","3",","," ","4",")",")">> /\ Parsed) =>
       /\ Accepted
       /\ Len(program.body) = 2
       /\ program.body[1].type = "FunctionDeclaration"

(* C7: each control statement in its documented form parses to its node:   *)
(* ko (test) { ... } [geni { ... }] to an IfStatement, kala (test) { ... } *)
(* to a WhileStatement, che (v we iterable) { ... } to a ForStatement,     *)
(* with the whole parenthesised expression as test or iterable and the     *)
(* statements between the braces as body.                                  *)
PlainBodies == { <<>>, <<"x">> }

BlockShape(b) ==
  <<"BlockStatement",
    IF b = <<>> THEN <<>>
    ELSE << <<"ExpressionStatement", OperandShape(b)>> >> >>

C7_ControlStatementsParsed ==
  \A t \in Tests, b \in PlainBodies :
    /\ (code = <<"k","o"," ","(">> \o t \o <<")"," ","{"," ">> \o b \o <<" ","}">> /\ Parsed) =>
         /\ Accepted
         /\ Shape(program) =
              <<"Program", << <<"IfStatement", OperandShape(t), BlockShape(b),
                                <<"null">> >> >> >>
    /\ (code = <<"k","o"," ","(">> \o t \o <<")"," ","{"," ">> \o b \o <<" ","}"," ","g","e","n","i"," ","{"," ">> \o b \o <<" ","}">>
          /\ Parsed) =>
         /\ Accepted
         /\ Shape(program) =
              <<"Program", << <<"IfStatement", OperandShape(t), BlockShape(b),
                                BlockShape(b)>> >> >>
    /\ (code = <<"k","a","l","a"," ","(">> \o t \o <<")"," ","{"," ">> \o b \o <<" ","}">> /\ Parsed) =>
         /\ Accepted
         /\ Shape(program) =
              <<"Program", << <<"WhileStatement", OperandShape(t),
                                BlockShape(b)>> >> >>
    /\ (code = <<"c","h","e"," ","(","v"," ","w","e"," ">> \o t \o <<")"," ","{"," ">> \o b \o <<" ","}">> /\ Parsed) =>
         /\ Accepted
         /\ Shape(program) =
              <<"Program", << <<"ForStatement", <<"v">>, OperandShape(t),
                                BlockShape(b)>> >> >>

(* C8: wherever the grammar requires one specific punctuation character,   *)
(* a token that is not that character makes parse throw: a construct with  *)
(* one required punctuation token replaced by any other token is rejected. *)
C8_WrongPunctuationRejected ==
  \A c \in RequiredPunctuation :
    \A i \in c.at, r \in Replacements :
      (r # c.construct[i] /\ code = Join(Replace(c.construct, i, r)) /\ Parsed)
        => Rejected

(* C9: in a for-in statement, at the top level or in a block, when the     *)
(* token after the loop variable is not the keyword `we`, parse throws     *)
(* `Expected "we" after variable name in for loop` with the line and       *)
(* column of that token and returns no program; when it is `we`, in any    *)
(* letter case in the source, that error is not thrown.                    *)
IsToken(t, type, value) == t.type = type /\ t.value = value

ForHeadAt(i) ==
  /\ Len(tokens) >= i + 3
  /\ i > 1 => (i = 2 /\ IsToken(tokens[1], "PUNCTUATION", <<"{">>))
  /\ IsToken(tokens[i], "KEYWORD", <<"c","h","e">>)
  /\ IsToken(tokens[i + 1], "PUNCTUATION", <<"(">>)
  /\ tokens[i + 2].type = "IDENTIFIER"

ExpectedWe == "Expected \"we\" after variable name in for loop"

C9_MissingWeRejected ==
  \A i \in {1, 2} :
    (Parsed /\ ForHeadAt(i)) =>
      IF IsToken(tokens[i + 3], "KEYWORD", <<"w","e">>)
        THEN result.error.message # ExpectedWe
        ELSE /\ Rejected
             /\ result.error =
                  Err(ExpectedWe, <<>>, tokens[i + 3].line, tokens[i + 3].column)

\* A for-in head whose loop variable is followed by another keyword was rejected.
C9_Witness ==
  /\ Parsed
  /\ ForHeadAt(1)
  /\ tokens[4].type = "KEYWORD"
  /\ ~IsToken(tokens[4], "KEYWORD", <<"w","e">>)
  /\ result.error.message = ExpectedWe

(* C10: after a return statement or an expression statement the parser     *)
(* consumes the following token only when it is `;` and otherwise leaves   *)
(* its position unchanged, so that `opejana f() { raka }` parses to a      *)
(* function whose body is one ReturnStatement with no argument.            *)
C10_OnlySemicolonConsumed ==
  /\ (code = <<"o","p","e","j","a","n","a"," ","f","(",")"," ","{"," ","r","a","k","a"," ","}">> /\ Parsed) =>
       /\ Accepted
       /\ Shape(program) =
            <<"Program",
              << <<"FunctionDeclaration", <<"f">>, <<>>,
                   <<"BlockStatement",
                     << <<"ReturnStatement", <<"null">> >> >> >> >> >> >>
  /\ (/\ Parsed
      /\ Len(tokens) >= 2
      /\ IsToken(tokens[1], "KEYWORD", <<"r","a","k","a">>)
      /\ tokens[2].type = "PUNCTUATION"
      /\ tokens[2].value \in { <<";">>, <<"}">> }) =>
       returnStatement(tokens, 1).current = IF tokens[2].value = <<";">> THEN 2 ELSE 1
  /\ (/\ Parsed
      /\ Len(tokens) >= 2
      /\ tokens[1].type \in {"IDENTIFIER", "NUMBER"}
      /\ tokens[2].type = "PUNCTUATION"
      /\ tokens[2].value \in { <<";">>, <<"}">>, <<")">>, <<",">> }) =>
       expressionStatement(tokens, 0).current =
         IF tokens[2].value = <<";">> THEN 2 ELSE 1

----------------------------------------------------------------------------
\* tokenize has returned: the tokens are those of the whole text.
Tokenized == pc = "parse"

\* The state in which the next token starts: whitespace and comments skipped.
RECURSIVE SkipBlank(_, _)
SkipBlank(src, s) ==
  LET c == currentChar(src, s) IN
  IF c # NullChar /\ c \in WhiteSpace THEN SkipBlank(src, skipWhitespace(src, s))
  ELSE IF c = "/" /\ LexPeek(src, s) = "/" THEN SkipBlank(src, skipComment(src, s))
  ELSE s

\* The 0-based offset of the first character of each token, end of input last.
RECURSIVE StartsFrom(_, _, _)
StartsFrom(src, s, acc) ==
  LET b == SkipBlank(src, s)
      r == getNextToken(src, b)
  IN IF ~r.ok \/ r.token.type = "EOF" THEN Append(acc, b.position)
     ELSE StartsFrom(src, r.st, Append(acc, b.position))

TokenStarts(src) == StartsFrom(src, LexerInit, <<>>)

Newlines(src, off) == {i \in 1..off : src[i] = "\n"}

\* One plus the number of newline characters before the offset.
LineAt(src, off) == 1 + Cardinality(Newlines(src, off))

\* One plus the number of characters since the last newline before the offset.
ColumnAt(src, off) ==
  IF Newlines(src, off) = {} THEN off + 1
  ELSE off + 1 - (CHOOSE i \in Newlines(src, off) :
                    \A j \in Newlines(src, off) : j <= i)

(* C11: every token of a tokenized text carries the 1-based line and       *)
(* column of its first character: the line is one plus the number of       *)
(* newlines before that character, the column one plus the number of       *)
(* characters since the last newline.                                      *)
C11_TokenPositions ==
  Tokenized =>
    \A i \in 1..(Len(tokens) - 1) :
      /\ tokens[i].line = LineAt(code, TokenStarts(code)[i])
      /\ tokens[i].column = ColumnAt(code, TokenStarts(code)[i])

(* C12: in a text with no newline every token is on line 1 at the column   *)
(* that is the 1-based index of its first character, and the end-of-input  *)
(* token is at column length + 1; `5 + 3` gives NUMBER 5 at column 1,      *)
(* OPERATOR + at column 3, NUMBER 3 at column 5, then EOF.                 *)
C12_SingleLineColumns ==
  /\ (Tokenized /\ Newlines(code, Len(code)) = {}) =>
       /\ Len(tokens) = Len(TokenStarts(code))
       /\ \A i \in 1..Len(tokens) :
            /\ tokens[i].line = 1
            /\ tokens[i].column = TokenStarts(code)[i] + 1
       /\ tokens[Len(tokens)].type = "EOF"
       /\ tokens[Len(tokens)].column = Len(code) + 1
  /\ (Tokenized /\ code = <<"5"," ","+"," ","3">>) =>
       tokens = << Token("NUMBER", <<"5">>, 1, 1), Token("OPERATOR", <<"+">>, 1, 3),
                   Token("NUMBER", <<"3">>, 1, 5), Token("EOF", <<>>, 1, 6) >>

\* `5 + 3` has been tokenized into its four tokens.
C12_Witness ==
  /\ pc = "parse"
  /\ code = <<"5"," ","+"," ","3">>
  /\ Len(tokens) = 4
  /\ tokens[2] = Token("OPERATOR", <<"+">>, 1, 3)

\* digits, then optionally one `.` and at least one more digit
WellFormedNumber(v) ==
  /\ Len(v) >= 1
  /\ \A i \in 1..Len(v) : v[i] \in Digits \cup {"."}
  /\ Cardinality({i \in 1..Len(v) : v[i] = "."}) <= 1
  /\ v[1] \in Digits
  /\ v[Len(v)] \in Digits

(* C13: the text of every NUMBER token is a non-empty run of digits,       *)
(* optionally followed by exactly one `.` and at least one more digit; a   *)
(* `.` with no digit after it is not part of the number.                   *)
C13_NumberTokenText ==
  Tokenized =>
    \A i \in 1..Len(tokens) :
      tokens[i].type = "NUMBER" => WellFormedNumber(tokens[i].value)

\* The words of CaseSources with keywords and word operators in lower case
LowerCased(w) ==
  CASE w \in { <<"K","O">>, <<"K","o">> } -> <<"k","o">>
    [] w = <<"J","A","M","A">> -> <<"j","a","m","a">>
    [] w = <<"t","a","k","s","e","e","m","B","a","k","i">> -> <<"t","a","k","s","e","e","m","b","a","k","i">>
    [] OTHER -> w

WordKind(w) ==
  CASE LowerCased(w) = <<"k","o">> -> "KEYWORD"
    [] LowerCased(w) \in { <<"j","a","m","a">>, <<"t","a","k","s","e","e","m","b","a","k","i">> } -> "OPERATOR"
    [] w = <<"5">> -> "NUMBER"
    [] OTHER -> "IDENTIFIER"

(* C14: texts that differ only in the letter case of keywords and word     *)
(* operators give the same tokens (kinds, values, positions); keyword and  *)
(* word-operator values are in lower case and other identifiers keep       *)
(* their casing.                                                           *)
C14_KeywordCaseInsensitive ==
  \A ws \in SeqsUpTo(CaseWords, MaxWords) :
    (Tokenized /\ code = Join(ws)) =>
      /\ tokens = tokenize(Join([i \in DOMAIN ws |-> LowerCased(ws[i])])).tokens
      /\ Len(tokens) = Len(ws) + 1
      /\ \A i \in DOMAIN ws :
           /\ tokens[i].type = WordKind(ws[i])
           /\ tokens[i].value = LowerCased(ws[i])

\* `KO JAMA` has been tokenized into the keyword ko and the operator jama.
C14_Witness ==
  /\ pc = "parse"
  /\ code = <<"K","O"," ","J","A","M","A">>
  /\ tokens[1] = Token("KEYWORD", <<"k","o">>, 1, 1)
  /\ tokens[2] = Token("OPERATOR", <<"j","a","m","a">>, 1, 4)

(* C15: whenever tokenize returns, the sequence holds exactly one          *)
(* end-of-input token and it is the last element, also for the empty text  *)
(* and for texts of whitespace and comments only.                          *)
C15_OneEndOfInput ==
  Tokenized =>
    /\ Len(tokens) >= 1
    /\ tokens[Len(tokens)].type = "EOF"
    /\ \A i \in 1..(Len(tokens) - 1) : tokens[i].type # "EOF"

\* A text of a blank and a comment has been tokenized.
C15_Witness ==
  /\ pc = "parse"
  /\ code = <<" ","/","/">>
  /\ Len(tokens) = 1
  /\ tokens[1].type = "EOF"

\* Parser.parse has returned a program.
ParseReturned == pc \notin {"tokenize", "parse"} /\ program # Null

\* Parser.parse has returned or thrown, or tokenize has thrown.
FrontEndDone == pc \notin {"tokenize", "parse"}

Zero == <<"NumericLiteral", PlusZero>>

CallOf(callee) == <<"CallExpression", callee, <<>> >>

UnaryOperandShape(a) ==
  CASE a = <<"f","(",")">> -> CallOf(<<"Identifier", <<"f">>>>)
    [] a = <<"f","(",")","(",")">> -> CallOf(CallOf(<<"Identifier", <<"f">>>>))
    [] a = <<"(","x",")">> -> <<"Identifier", <<"x">>>>
    [] a = <<"f","(","a",")">> ->
         <<"CallExpression", <<"Identifier", <<"f">>>>,
           << <<"Identifier", <<"a">>>> >> >>
    [] a = <<"[","1","]">> ->
         <<"ArrayLiteral", << <<"NumericLiteral", ToDouble(<<1>>, <<1>>)>> >> >>
    [] a = <<"[","]">> -> <<"ArrayLiteral", <<>> >>
    [] OTHER -> OperandShape(a)

\* op1 (op2 (... e)) with every prefix written as 0 op e
RECURSIVE Negated(_, _)
Negated(ops, shape) ==
  IF Len(ops) = 0 THEN shape
  ELSE <<"BinaryExpression", ops[1], Zero, Negated(Tail(ops), shape)>>

(* C19: a prefix `-` or `manfi` applied to an operand e parses to a        *)
(* BinaryExpression with that operator, left operand the numeric literal 0 *)
(* and right operand e; nested prefixes nest to the right, `- - x` being   *)
(* 0 - (0 - x).                                                            *)
C19_PrefixMinusDesugared ==
  /\ \A ops \in SeqsUpTo(PrefixOperators, MaxPrefixes), e \in UnaryOperands :
       (Len(ops) >= 1 /\ code = Join(ops \o <<e>>) /\ FrontEndDone) =>
         /\ ParseReturned
         /\ Shape(program) = OneStatement(Negated(ops, UnaryOperandShape(e)))
  /\ \A e \in UnaryOperands :
       (code = <<"-">> \o e /\ FrontEndDone) =>
         /\ ParseReturned
         /\ Shape(program) = OneStatement(Negated(<< <<"-">> >>, UnaryOperandShape(e)))
  /\ \A op \in PrefixOperators, e \in BracketedOperands :
       (code = Join(<<op, e>>) /\ FrontEndDone) =>
         /\ ParseReturned
         /\ Shape(program) =
              OneStatement(Negated(<<op>>, UnaryOperandShape(e)))

(* C20: postfix calls with empty argument lists apply left to right: the   *)
(* program `f()` parses to one CallExpression with callee f and no         *)
(* arguments, `f()()` to a CallExpression with no arguments whose callee   *)
(* is the CallExpression `f()`.                                            *)
C20_ChainedEmptyCalls ==
  /\ (code = <<"f","(",")">> /\ FrontEndDone) =>
       /\ ParseReturned
       /\ Shape(program) = OneStatement(CallOf(<<"Identifier", <<"f">>>>))
  /\ (code = <<"f","(",")","(",")">> /\ FrontEndDone) =>
       /\ ParseReturned
       /\ Shape(program) = OneStatement(CallOf(CallOf(<<"Identifier", <<"f">>>>)))

\* `f()()` has been parsed into a call whose callee is a call.
C20_Witness ==
  /\ code = <<"f","(",")","(",")">>
  /\ ParseReturned
  /\ program.body[1].expression.type = "CallExpression"
  /\ program.body[1].expression.callee.type = "CallExpression"

(***************************************************************************)
(* Runs: what a run resolves to and what the page does with it             *)
(***************************************************************************)
\* The error Lexer.tokenize or else Parser.parse throws for a source text,
\* NoError when neither throws
FrontEndThrows ==
  \/ pc = "tokenize" /\ ~tokenize(code).ok
  \/ pc = "parse" /\ ~parse(tokens).ok

Thrown == IF pc = "tokenize" THEN tokenize(code).error ELSE parse(tokens).error

\* runPashtoPlusPlus has resolved: runCode holds the result, or has shown it
Resolved == pc = "done" \/ (pc = "idle" /\ output # <<>>)

\* The front end threw in the last run
FrontEndFailed == Resolved /\ program = Null

\* The step on which the front end throws resolves the run to the error
CatchStep ==
  FrontEndThrows =>
    /\ pc' = "done"
    /\ result' = [output |-> <<>>, error |-> Thrown]
    /\ ~interpreter'.created
    /\ inputCalls' = 0

\* C16: when Lexer.tokenize or Parser.parse throws, the run does not go on to
\* the Interpreter: it resolves, to a result with empty output and the
\* message of the error thrown, no Interpreter is created and the input
\* callback is never invoked.
C16_FrontEndErrorResolves ==
  /\ [](FrontEndFailed =>
          /\ result.output = <<>>
          /\ result.error # NoError
          /\ ~interpreter.created
          /\ inputCalls = 0)
  /\ [][CatchStep]_vars

\* C16 witness: the lexer returned tokens, the parser threw, and the run has
\* resolved to the parser's error
C16_Witness ==
  /\ pc = "done"
  /\ tokens # <<>>
  /\ program = Null
  /\ result.output = <<>>
  /\ result.error # NoError
  /\ result.error = parse(tokens).error

\* The text the page shows has this piece in it
Shows(piece) == \E i \in DOMAIN output : output[i] = piece

\* The run has ended in an error after the Interpreter produced output
FailedAfterOutput ==
  /\ Resolved
  /\ interpreter.output # <<>>
  /\ result.error # NoError

\* The page has shown the result of the run
Shown == pc = "idle" /\ output # <<>>

\* C17: when a run ends in an error after output was produced, the result of
\* runPashtoPlusPlus holds that output and the error's message, and the text
\* the page shows for it has both in it.
C17_OutputKeptWithError ==
  FailedAfterOutput =>
    /\ result.output = interpreter.output
    /\ Shown => Shows(Text(result.output)) /\ Shows(ErrorText(result.error))

\* One run at most, running exactly while isRunning; one request at most,
\* pending exactly while waitingForInput; nothing in progress between runs
OneRunOneRequest ==
  /\ runs \in {0, 1}
  /\ pending \in {0, 1}
  /\ isRunning <=> runs = 1
  /\ waitingForInput <=> pending = 1
  /\ pending = 1 => runs = 1 /\ resolveInput = "pending"
  /\ pc = "idle" <=> runs = 0

\* What a step of the page may do
PageStep ==
  \* runCode starts only while the Run button is enabled
  /\ runs' > runs => ~isRunning /\ ~waitingForInput
  \* a submit resolves the resolver only while waiting, and clears the flag
  /\ pending' < pending => waitingForInput /\ ~waitingForInput'
  \* a submit with no request pending changes nothing
  /\ HandleInputSubmit /\ pending = 0 => UNCHANGED vars
  \* a run that finishes leaves both flags false
  /\ runs' < runs => ~isRunning' /\ ~waitingForInput'

(***************************************************************************)
Chars(str) ==
  CASE str = "ko" -> <<"k","o">>
    [] str = "geni" -> <<"g","e","n","i">>
    [] str = "kala" -> <<"k","a","l","a">>
    [] str = "che" -> <<"c","h","e">>
    [] str = "we" -> <<"w","e">>
    [] str = "opejana" -> <<"o","p","e","j","a","n","a">>
    [] str = "raka" -> <<"r","a","k","a">>
    [] str = "rishtia" -> <<"r","i","s","h","t","i","a">>
    [] str = "ghalat" -> <<"g","h","a","l","a","t">>

RECURSIVE Written(_), WrittenSeq(_)
WrittenSeq(ns) ==
  IF Len(ns) = 0 THEN <<>> ELSE Written(Head(ns)) \o WrittenSeq(Tail(ns))

\* The values of the keyword, identifier, string, operator and `[` tokens a
\* tree stands for, in the order they are written
Written(n) ==
  CASE n.type = "null" -> <<>>
    [] n.type = "Program" -> WrittenSeq(n.body)
    [] n.type = "NumericLiteral" -> <<>>
    [] n.type = "StringLiteral" -> <<n.value>>
    [] n.type = "BooleanLiteral" ->
         <<IF n.value THEN Chars("rishtia") ELSE Chars("ghalat")>>
    [] n.type = "Identifier" -> <<n.name>>
    [] n.type = "ArrayLiteral" -> << <<"[">> >> \o WrittenSeq(n.elements)
    [] n.type = "BinaryExpression" ->
         Written(n.left) \o <<n.operator>> \o Written(n.right)
    [] n.type = "AssignmentExpression" ->
         Written(n.left) \o << <<"=">> >> \o Written(n.right)
    [] n.type = "CallExpression" ->
         Written(n.callee) \o WrittenSeq(n.arguments)
    [] n.type = "ExpressionStatement" -> Written(n.expression)
    [] n.type = "ReturnStatement" -> <<Chars("raka")>> \o Written(n.argument)
    [] n.type = "BlockStatement" -> WrittenSeq(n.body)
    [] n.type = "IfStatement" ->
         <<Chars("ko")>> \o Written(n.test) \o Written(n.consequent)
           \o (IF n.alternate = Null THEN <<>>
               ELSE <<Chars("geni")>> \o Written(n.alternate))
    [] n.type = "WhileStatement" ->
         <<Chars("kala")>> \o Written(n.test) \o Written(n.body)
    [] n.type = "ForStatement" ->
         <<Chars("che"), n.variable, Chars("we")>>
           \o Written(n.iterable) \o Written(n.body)
    [] n.type = "FunctionDeclaration" ->
         <<Chars("opejana"), n.name>> \o n.params \o Written(n.body)

\* A token whose value a tree must show
Represented(t) ==
  \/ t.type \in {"KEYWORD", "IDENTIFIER", "STRING", "OPERATOR"}
  \/ t.type = "PUNCTUATION" /\ t.value = <<"[">>

RECURSIVE ValuesOf(_)
ValuesOf(toks) ==
  IF Len(toks) = 0 THEN <<>>
  ELSE (IF Represented(Head(toks)) THEN <<Head(toks).value>> ELSE <<>>)
         \o ValuesOf(Tail(toks))

\* C21: the parser never silently discards a token: on every successful
\* parse the keywords, identifiers, strings, operators and opening square
\* brackets of the token sequence are exactly those the returned tree stands
\* for, in the same order; no operator or bracket is stepped over.
C21_NoTokenDiscarded ==
  ParseReturned => ValuesOf(tokens) = Written(program)

(***************************************************************************)
(* The cursor of the parser                                                *)
(***************************************************************************)
\* A cursor that is in the token array and not past its first end-of-input
\* token
InRange(toks, cur) ==
  /\ cur \in 0..(Len(toks) - 1)
  /\ \A i \in 1..cur : toks[i].type # "EOF"

\* The cursor positions from which a loop of parse or blockStatement may call
\* declaration(): any token before the first end-of-input token
LoopPositions(toks) ==
  {cur \in 0..(Len(toks) - 1) : InRange(toks, cur) /\ ~isAtEnd(toks, cur)}

\* declaration() called at cur returns further on, or throws; in range both ways
Progress(toks, cur) ==
  \E d \in {Invoke("declaration", toks, cur, Null)} :
    /\ InRange(toks, d.current)
    /\ d.ok => d.current > cur

\* C22: Parser.parse terminates on every array of tokens that ends with an
\* end-of-input token, those made by hand (the kinds and values of
\* HandTokens in any order, an end-of-input token before the last one and a
\* keyword that is `ko` only after toLowerCase included) and those tokenize
\* returns: every
\* call of declaration() from a loop of parse or of blockStatement consumes
\* at least one token or throws, and the cursor stays within
\* 0 <= current < number of tokens and never passes the first end-of-input
\* token; a parse that returns has stopped on that token.  The calls of
\* declaration() are those parse is about to make on the array it was
\* constructed on; where parse stops is stated once it has ended.
C22_ParseTerminates ==
  /\ pc = "parse" => \A cur \in LoopPositions(tokens) : Progress(tokens, cur)
  /\ FrontEndDone /\ tokens # <<>> =>
       \E r \in {parse(tokens)} :
         /\ InRange(tokens, r.current)
         /\ r.ok => isAtEnd(tokens, r.current)

\* C22 witness: parse has returned the program of an array made by hand that
\* no text is the source of: its first token is the keyword written with
\* U+212A, which the parser took for `ko`, and declaration() was called from
\* the top-level loop and, inside it, from the loop of the block
C22_Witness ==
  /\ ParseReturned
  /\ tokens \in BlockLists
  /\ tokens[1].value = <<"\\u212A", "O">>
  /\ program.body[1].type = "IfStatement"
  /\ program.body[1].consequent.body # <<>>

(***************************************************************************)
(* Operator tokens                                                         *)
(***************************************************************************)
\* A `!` of the text with no `=` right after it
LoneBangs(src) ==
  {i \in 1..Len(src) : src[i] = "!" /\ (i = Len(src) \/ src[i + 1] # "=")}

\* The text has no string and no comment that could hold the `!`
NoStringOrComment(src) ==
  \A i \in 1..Len(src) : src[i] \notin {"\"", "'", "/"}

\* C23: every OPERATOR token tokenize returns has a value of the OPERATORS
\* list; a text with a `!` that no `=` follows makes tokenize fail with an
\* unexpected-character error instead.
C23_OperatorTokensKnown ==
  /\ Tokenized =>
       \A i \in 1..Len(tokens) :
         tokens[i].type = "OPERATOR" => tokens[i].value \in OPERATORS
  /\ pc # "tokenize" /\ LoneBangs(code) # {} /\ NoStringOrComment(code) =>
       /\ tokens = <<>>
       /\ result.error.message = "Unexpected character"
====
